---- MODULE Spec2Model ----
(***************************************************************************)
(* katniss: protobuf messages -> arrow record batches -> temporal windows. *)
(*                                                                         *)
(*   katniss-pb2arrow/src/record_conversion.rs      RecordBatchConverter   *)
(*   katniss-pb2arrow/src/record_conversion/*.rs    builder tree, appends   *)
(*   katniss-ingestor/src/arrow.rs                  ProtobufBatchIngestor  *)
(*   katniss-ingestor/src/temporal_rotator.rs       TemporalRotator        *)
(*   katniss-ingestor/src/pipeline/temporal_rotator.rs  rotation task      *)
(*   katniss-ingestor/src/pipeline/parquet_converter.rs encoding task      *)
(*   katniss-ingestor/src/pipeline/file_sink.rs         sink task          *)
(*   katniss-ingestor/src/ingestors/temporal_parquet_ingestor.rs  wiring   *)
(*                                                                         *)
(* Options are sequences of length 0 (None) or 1 (Some(x)).                *)
(***************************************************************************)
EXTENDS Integers, Sequences, FiniteSets, TLC

VARIABLES
    builder,      \* RecordBatchConverter.builder: the root StructBuilder
    batch_size,   \* ProtobufBatchIngestor.batch_size (records_per_arrow_batch)
    current,      \* TemporalRotator.current: the open TemporalBuffer
    period,       \* duration_seconds given to try_new_with_duration
    sealed,       \* windows handed out so far (return values / tx), oldest first
    nmsg,         \* number of ingest / append calls made so far
    inwin,        \* successful ingests since the current window was opened
    nfail,        \* calls that returned an error of their own (not PipelineClosed)
    last,         \* the last call: its timestamp and its result
    clock,        \* wall clock read by Utc::now() in the rotation task
    rx,           \* messages queued on the rotation task's input channel
    rotator_task, \* the rotation loop: "running", or once `?` left it
                  \* "closed" (PipelineClosed) or "failed" (any other error)
    head,         \* the head Sender: "open" or "dropped"
    rx_buf,       \* sealed windows queued between rotation and encoding
    converter_buf,   \* the window the encoding task has received, if any
    converter_task,  \* the encoding loop: "running", "closed" or "failed"
    rx_bytes,     \* TemporalBytes queued between encoding and sink
    sink_buf,     \* the blob the sink task has received, if any
    sink_task,    \* the sink loop: "running", "closed" or "failed"
    files,        \* the directory: path -> bytes of the file
    encoded,      \* begin_at of every window encoded so far, in order
    writes,       \* begin_at of every blob written so far, in order
    dictionaries, \* DictValuesContainer: dict_id -> dictionary values
    schema,       \* the arrow schema get_arrow_schema returned last, if any
    made,         \* what try_new_with_dictionaries returned last
    nplan,        \* calls made on the schema converter and the container
    num_batches,  \* MultiBatchWriter.num_batches: batches per parquet file
    in_memory,    \* MultiBatchWriter.batches / LanceFsIngestor.batches (in memory)
    writer,       \* MultiBatchWriter.writer: the open ParquetBuffer
    written,      \* every fs::write of a finalized buffer so far, in order
    accepted,     \* the batches of the write_batch calls that returned Ok
    remaining,    \* RepeatedDynamicMessages.bytes: what is left of the buffer
    input,        \* the buffer the iterator was made over
    field_tag,    \* RepeatedDynamicMessages.field_tag
    yielded,      \* the items next() has returned so far, in order
    ended,        \* next() has returned None
    serialization,   \* Serialization chosen: "Parquet" or "Lance"
    output,       \* batches the serializer has written to its file or dataset
    result        \* RepeatedProtoIngestor::ingest: "running", "ok" or "err"

\* channels, tasks and files downstream of the rotation task
line_vars == <<head, rx_buf, converter_buf, converter_task, rx_bytes, sink_buf,
               sink_task, files, encoded, writes>>

\* the schema converter, its dictionary container and the builders made of them
plan_vars == <<dictionaries, schema, made, nplan>>

\* the parquet writer, the repeated-message iterator and the file ingestors
io_vars == <<num_batches, in_memory, writer, written, accepted, remaining, input,
             field_tag,
             yielded, ended, serialization, output, result>>

vars == <<builder, batch_size, current, period, sealed, nmsg, inwin, nfail, last,
          clock, rx, rotator_task, head, rx_buf, converter_buf, converter_task,
          rx_bytes, sink_buf, sink_task, files, encoded, writes,
          dictionaries, schema, made, nplan,
          num_batches, in_memory, writer, written, accepted, remaining, input,
             field_tag,
          yielded, ended, serialization, output, result>>

None == <<>>
Some(x) == <<x>>
IsSome(o) == Len(o) = 1

(***************************************************************************)
(* Bounds of the model.                                                    *)
(***************************************************************************)
MaxMsgs == 6      \* ingest calls per behaviour
MaxAppends == 4   \* append_message calls per behaviour of the converter alone
MaxFails == 1     \* failing calls per behaviour
MaxBatch == 2     \* largest records_per_arrow_batch tried
MaxQueue == 2     \* messages waiting on the rotation task's channel
MaxSent == 3      \* messages sent into the pipeline per behaviour
MaxClock == 122   \* latest wall-clock reading

(***************************************************************************)
(* Arrow schema of the pipeline (fields align with the builders).  The     *)
(* shape is that of the spacecorp Packet: a scalar, an enum, a nested      *)
(* message, a repeated scalar and a repeated nested message.               *)
(***************************************************************************)
InnerFields ==
    << [name |-> "x", type |-> "Int32"],
       [name |-> "tag", type |-> "Utf8"],
       [name |-> "ys", type |-> "List", inner |-> [name |-> "item", type |-> "Int32"]] >>

ItemFields ==
    << [name |-> "x", type |-> "Int32"] >>

SchemaFields ==
    << [name |-> "id", type |-> "Int32"],
       [name |-> "status", type |-> "Dictionary"],
       [name |-> "inner", type |-> "Struct", fields |-> InnerFields],
       [name |-> "vals", type |-> "List", inner |-> [name |-> "item", type |-> "Int32"]],
       [name |-> "items", type |-> "List",
            inner |-> [name |-> "item", type |-> "Struct", fields |-> ItemFields]] >>

(***************************************************************************)
(* Builders.  A StructBuilder is [valid, kids]; a ListBuilder is           *)
(* [cells, values] where a cell is [valid, end]: the validity bit and the   *)
(* offset closing the row; every other builder is [cells], None for null.  *)
(***************************************************************************)
RECURSIVE make_builder(_)
RECURSIVE try_from_fields(_)

try_from_fields(fields) ==
    [valid |-> <<>>, kids |-> [i \in 1..Len(fields) |-> make_builder(fields[i])]]

make_builder(field) ==
    CASE field.type = "List" -> [cells |-> <<>>, values |-> make_builder(field.inner)]
      [] field.type = "Struct" -> try_from_fields(field.fields)
      [] OTHER -> [cells |-> <<>>]

IsStructBuilder(b) == "valid" \in DOMAIN b

\* ArrayBuilder::len
BLen(b) == IF IsStructBuilder(b) THEN Len(b.valid) ELSE Len(b.cells)

(***************************************************************************)
(* Reflected values (prost_reflect::Value) and messages.  A message maps   *)
(* the field names of its descriptor to [has, presence, v]: has is         *)
(* has_field_by_name, presence is supports_presence of the field's         *)
(* descriptor and v is what get_field_by_name returns (the default when    *)
(* the field is not set).                                                  *)
(***************************************************************************)
I32 == [k |-> "i32"]
Str == [k |-> "str"]
EnumNumber(n) == [k |-> "enum", n |-> n]
Message(m) == [k |-> "msg", m |-> m]
List(es) == [k |-> "list", es |-> es]

\* Value names of the enum of "status", in declaration order
StatusValues == <<"PASSSING", "FAILING", "LEGACY">>

\* Numbers the enum descriptor of "status" declares
EnumNumbers == {0, 1, 2}

\* enum_descriptor.get_value(n) and its name
get_value(n) == IF n \in EnumNumbers THEN Some(StatusValues[n + 1]) ELSE None

\* Value::as_i32 / as_str / as_bool: Some only for the matching variant
AsI32(v) == IF v.k = "i32" THEN Some(v) ELSE None
AsStr(v) == IF v.k = "str" THEN Some(v) ELSE None
AsBool(v) == IF v.k = "bool" THEN Some(v) ELSE None
AsMessage(v) == IF v.k = "msg" THEN Some(v.m) ELSE None
AsList(v) == IF v.k = "list" THEN Some(v.es) ELSE None

\* the getter the match arm of a column type passes to parse_val / parse_list
Getter(type, v) ==
    CASE type = "Int32" -> AsI32(v)
      [] type = "Utf8" -> AsStr(v)
      [] type = "Boolean" -> AsBool(v)

Ok(b) == [ok |-> TRUE, err |-> "", b |-> b]
Err(e, b) == [ok |-> FALSE, err |-> e, b |-> b]

\* parse_val: Ok(None) for no value, TypeCastError when the getter gives None
parse_val(value, type) ==
    IF value = None THEN [ok |-> TRUE, v |-> None]
    ELSE IF Getter(type, value[1]) = None THEN [ok |-> FALSE, v |-> None]
    ELSE [ok |-> TRUE, v |-> Getter(type, value[1])]

\* parse_list: Ok(None) for no list, TypeCastError at the first bad element
parse_list(values, type) ==
    IF values = None THEN [ok |-> TRUE, v |-> None]
    ELSE IF \E j \in 1..Len(values[1]) : Getter(type, values[1][j]) = None
         THEN [ok |-> FALSE, v |-> None]
    ELSE [ok |-> TRUE, v |-> Some([j \in 1..Len(values[1]) |-> Getter(type, values[1][j])])]

\* msg.descriptor().get_field_by_name(f.name()) found, or there is no message
DescriptorFound(f, msg) == msg = None \/ f.name \in DOMAIN msg[1]

\* val: None when the field tracks presence and is not set, else the value
FieldVal(f, msg) ==
    IF msg = None THEN None
    ELSE IF msg[1][f.name].presence /\ ~msg[1][f.name].has THEN None
    ELSE Some(msg[1][f.name].v)

\* extend_builder on a primitive builder: one cell, None for a null
ExtendCell(b, cell) == [b EXCEPT !.cells = Append(@, cell)]

\* ListBuilder::append(is_valid): closes the row at the current end of values
ListAppend(b, is_valid) ==
    [b EXCEPT !.cells = Append(@, [valid |-> is_valid, end |-> BLen(b.values)])]

\* extend_builder on a ListBuilder of primitives
ExtendList(b, lst) ==
    IF lst = None THEN ListAppend(b, FALSE)
    ELSE ListAppend([b EXCEPT !.values.cells = @ \o [j \in 1..Len(lst[1]) |-> lst[1][j]]], TRUE)

RECURSIVE append_all_fields(_, _, _)
RECURSIVE AppendFieldsFrom(_, _, _, _)
RECURSIVE append_field(_, _, _)
RECURSIVE append_non_list_value(_, _, _)
RECURSIVE append_list_value(_, _, _)
RECURSIVE AppendElemsFrom(_, _, _, _)

\* the loop of append_all_fields from field i on; `?` leaves at the first error
\* with the builders of the fields before it already advanced
AppendFieldsFrom(fields, b, msg, i) ==
    IF i > Len(fields)
    THEN Ok([b EXCEPT !.valid = Append(@, msg # None)])
    ELSE LET r == append_field(fields[i], b.kids[i], msg)
             b2 == [b EXCEPT !.kids[i] = r.b]
         IN  IF r.ok THEN AppendFieldsFrom(fields, b2, msg, i + 1)
             ELSE Err(r.err, b2)

append_all_fields(fields, b, msg) == AppendFieldsFrom(fields, b, msg, 1)

append_field(f, b, msg) ==
    IF f.type = "List" THEN append_list_value(f, b, msg)
    ELSE append_non_list_value(f, b, msg)

append_non_list_value(f, b, msg) ==
    IF ~DescriptorFound(f, msg) THEN Err("DescriptorNotFound", b)
    ELSE LET val == FieldVal(f, msg) IN
    CASE f.type \in {"Int32", "Utf8"} ->
            IF parse_val(val, f.type).ok
            THEN Ok(ExtendCell(b, parse_val(val, f.type).v))
            ELSE Err("TypeCastError", b)
      [] f.type = "Boolean" ->
            IF val # None /\ val[1].k = "msg" THEN Ok(ExtendCell(b, Some(TRUE)))
            ELSE IF parse_val(val, f.type).ok
            THEN Ok(ExtendCell(b, parse_val(val, f.type).v))
            ELSE Err("TypeCastError", b)
      [] f.type = "Dictionary" ->
            LET intval == IF val = None THEN None ELSE AsI32(val[1]) IN
            IF intval = None THEN Ok(ExtendCell(b, None))
            ELSE IF val[1].k # "enum" THEN Err("NonEnumField", b)
            ELSE IF get_value(val[1].n) = None THEN Err("NoEnumValue", b)
            ELSE Ok(ExtendCell(b, get_value(val[1].n)))
      [] f.type = "Struct" ->
            append_all_fields(f.fields, b,
                              IF val = None THEN None ELSE AsMessage(val[1]))

\* the `for v in lst` loop of the Struct arm of append_list_value
AppendElemsFrom(fields, values, lst, j) ==
    IF j > Len(lst) THEN Ok(values)
    ELSE LET r == append_all_fields(fields, values, AsMessage(lst[j]))
         IN  IF r.ok THEN AppendElemsFrom(fields, r.b, lst, j + 1)
             ELSE r

append_list_value(f, b, msg) ==
    IF ~DescriptorFound(f, msg) THEN Err("DescriptorNotFound", b)
    ELSE LET v == FieldVal(f, msg)
             values == IF v # None THEN AsList(v[1]) ELSE None
         IN
    CASE f.inner.type \in {"Int32", "Utf8", "Boolean"} ->
            IF parse_list(values, f.inner.type).ok
            THEN Ok(ExtendList(b, parse_list(values, f.inner.type).v))
            ELSE Err("TypeCastError", b)
      [] f.inner.type = "Struct" ->
            IF values # None
            THEN LET r == AppendElemsFrom(f.inner.fields, b.values, values[1], 1)
                     b2 == [b EXCEPT !.values = r.b]
                 IN  IF r.ok THEN Ok(ListAppend(b2, TRUE)) ELSE Err(r.err, b2)
            ELSE LET r == append_all_fields(f.inner.fields, b.values, None)
                     b2 == [b EXCEPT !.values = r.b]
                 IN  IF r.ok THEN Ok(ListAppend(b2, FALSE)) ELSE Err(r.err, b2)


(***************************************************************************)
(* Messages offered.  DefaultMsg is Packet::default() decoded against the  *)
(* pipeline's descriptor, FullMsg has every field set; the others are      *)
(* messages of a descriptor that disagrees with the schema on one field.   *)
(***************************************************************************)
Unset(v) == [has |-> FALSE, presence |-> FALSE, v |-> v]
Absent(v) == [has |-> FALSE, presence |-> TRUE, v |-> v]
Set(v) == [has |-> TRUE, presence |-> TRUE, v |-> v]
Present(v) == [has |-> TRUE, presence |-> FALSE, v |-> v]

InnerMsg == [x |-> Present(I32), tag |-> Present(Str), ys |-> Unset(List(<<>>))]
InnerDefault == [x |-> Unset(I32), tag |-> Unset(Str), ys |-> Unset(List(<<>>))]
InnerBadTag == [x |-> Present(I32), tag |-> Present(I32), ys |-> Unset(List(<<>>))]
ItemMsg == [x |-> Present(I32)]
ItemBad == [x |-> Present(Str)]

DefaultMsg ==
    [id |-> Unset(I32), status |-> Unset(EnumNumber(0)),
     inner |-> Absent(Message(InnerDefault)),
     vals |-> Unset(List(<<>>)), items |-> Unset(List(<<>>))]

FullMsg ==
    [id |-> Present(I32), status |-> Present(EnumNumber(1)),
     inner |-> Set(Message(InnerMsg)),
     vals |-> Present(List(<<I32, I32>>)),
     items |-> Present(List(<<Message(ItemMsg), Message(ItemMsg)>>))]

BadId == [FullMsg EXCEPT !.id = Present(Str)]
BadStatus == [FullMsg EXCEPT !.status = Present(I32)]
BadInnerTag == [FullMsg EXCEPT !.inner = Set(Message(InnerBadTag))]
BadVals == [FullMsg EXCEPT !.vals = Present(List(<<I32, Str>>))]
BadItems == [FullMsg EXCEPT !.items = Present(List(<<Message(ItemMsg), Message(ItemBad)>>))]
NoItems == [n \in {"id", "status", "inner", "vals"} |-> FullMsg[n]]
\* an enum field holding a number its descriptor does not declare
UnknownStatus == [FullMsg EXCEPT !.status = Present(EnumNumber(7))]
InnerNotMsg == [FullMsg EXCEPT !.inner = Present(I32)]

\* a field that tracks presence (optional) and is not set
OptionalUnset == [FullMsg EXCEPT !.id = Absent(I32)]

GoodMsgs == {DefaultMsg, FullMsg, InnerNotMsg, UnknownStatus, OptionalUnset}
BadMsgs == {BadId, BadStatus, BadInnerTag, BadVals, BadItems, NoItems}
Msgs == GoodMsgs \cup BadMsgs

(***************************************************************************)
(* RecordBatchConverter                                                    *)
(***************************************************************************)
NewConverter == try_from_fields(SchemaFields)

append_message(b, msg) == append_all_fields(SchemaFields, b, Some(msg))

RECURSIVE FinishBuilder(_)
\* ArrayBuilder::finish leaves the builder (and its children) empty
FinishBuilder(b) ==
    IF IsStructBuilder(b)
    THEN [valid |-> <<>>, kids |-> [i \in DOMAIN b.kids |-> FinishBuilder(b.kids[i])]]
    ELSE IF "values" \in DOMAIN b
    THEN [cells |-> <<>>, values |-> FinishBuilder(b.values)]
    ELSE [cells |-> <<>>]

\* records() that copies the arrays out but never resets the builder
records_without_reset(b) ==
    [batch |-> [num_rows |-> BLen(b), columns |-> b.kids], b |-> b]

\* records(): the StructArray of builder.finish() as a RecordBatch; its row
\* count is the struct's len and its columns are what the children held
records(b) ==
    [batch |-> [num_rows |-> BLen(b), columns |-> b.kids], b |-> FinishBuilder(b)]


(***************************************************************************)
(* ProtobufBatchIngestor                                                   *)
(***************************************************************************)
\* ingest_message with the threshold test off by one (len > batch_size)
ingest_message_late(b, size, msg) ==
    LET r == append_message(b, msg) IN
    IF ~r.ok THEN [ok |-> FALSE, b |-> r.b, batch |-> None]
    ELSE IF BLen(r.b) > size
    THEN [ok |-> TRUE, b |-> FinishBuilder(r.b), batch |-> Some(records(r.b).batch)]
    ELSE [ok |-> TRUE, b |-> r.b, batch |-> None]

\* ingest_message that hands the batch out and keeps its rows buffered
ingest_message_keeping(b, size, msg) ==
    LET r == append_message(b, msg) IN
    IF ~r.ok THEN [ok |-> FALSE, b |-> r.b, batch |-> None]
    ELSE IF BLen(r.b) >= size
    THEN [ok |-> TRUE, b |-> r.b, batch |-> Some(records(r.b).batch)]
    ELSE [ok |-> TRUE, b |-> r.b, batch |-> None]

\* ingest_message: append, then hand out the batch once len >= batch_size
ingest_message(b, size, msg) ==
    LET r == append_message(b, msg) IN
    IF ~r.ok THEN [ok |-> FALSE, b |-> r.b, batch |-> None]
    ELSE IF BLen(r.b) >= size
    THEN [ok |-> TRUE, b |-> FinishBuilder(r.b), batch |-> Some(records(r.b).batch)]
    ELSE [ok |-> TRUE, b |-> r.b, batch |-> None]

\* finish that resets the builder before it takes the batch
finish_after_reset(b) == records(FinishBuilder(b))

\* finish: whatever is buffered, as a batch
finish(b) == records(b)

(***************************************************************************)
(* TemporalBuffer and TemporalRotator                                      *)
(***************************************************************************)
DefaultDuration == 60

new_with_duration(now, duration_seconds) ==
    [begin_at |-> now, end_at |-> now + duration_seconds, batches |-> <<>>]

TemporalBufferNew(now) == new_with_duration(now, DefaultDuration)

\* the rotation test with the boundary included (now >= end_at)
CrossedOrAtEnd(now, cur) == now >= cur.end_at

\* a rotation test that also rotates for a timestamp before the window
CrossedOutside(now, cur) == now > cur.end_at \/ now < cur.begin_at

\* the rotation test of ingest
Crossed(now, cur) == now > cur.end_at

\* a replacement window that ends, instead of begins, at `now`
ReplacementEndingNow(now, duration_seconds) ==
    [begin_at |-> now - DefaultDuration, end_at |-> now, batches |-> <<>>]

\* a replacement window aligned to the grid of periods
ReplacementAligned(now, duration_seconds) ==
    TemporalBufferNew(now - (now % DefaultDuration))

\* the window that replaces the sealed one
Replacement(now, duration_seconds) == TemporalBufferNew(now)

\* a rotation that pushes the flushed batch only when it holds rows
IngestResultSkippingEmpty(b, cur, size, duration_seconds, msg, now) ==
    LET rot == Crossed(now, cur)
        old == IF BLen(b) = 0 THEN cur
               ELSE [cur EXCEPT !.batches = Append(@, finish(b).batch)]
        cur1 == IF rot THEN Replacement(now, duration_seconds) ELSE cur
        b1 == IF rot THEN finish(b).b ELSE b
        r == ingest_message(b1, size, msg)
    IN  [ok |-> r.ok,
         rotated |-> rot,
         builder |-> r.b,
         current |-> IF r.batch # None
                     THEN [cur1 EXCEPT !.batches = Append(@, r.batch[1])]
                     ELSE cur1,
         old |-> IF rot THEN Some(old) ELSE None,
         ret |-> IF r.ok /\ rot THEN Some(old) ELSE None]

\* ingest_potentially_blocking(msg, now) as a function of the rotator's state:
\* the new converter and current window, and the call's result
IngestResult(b, cur, size, duration_seconds, msg, now) ==
    LET rot == Crossed(now, cur)
        old == [cur EXCEPT !.batches = Append(@, finish(b).batch)]
        cur1 == IF rot THEN Replacement(now, duration_seconds) ELSE cur
        b1 == IF rot THEN finish(b).b ELSE b
        r == ingest_message(b1, size, msg)
    IN  [ok |-> r.ok,
         rotated |-> rot,
         builder |-> r.b,
         current |-> IF r.batch # None
                     THEN [cur1 EXCEPT !.batches = Append(@, r.batch[1])]
                     ELSE cur1,
         old |-> IF rot THEN Some(old) ELSE None,
         \* Ok(finished_batch); the `?` on a failed append returns before it
         ret |-> IF r.ok /\ rot THEN Some(old) ELSE None]

\* tx.send(x) is Ok while the task holding the receiver is alive
SendOk(receiver_task) == receiver_task = "running"

\* a queue that hands its items out newest first
EnqueueFront(q, x) == <<x>> \o q

\* a send whose item never arrives
EnqueueDropping(q, x) == q

\* tx.send(x) on an unbounded channel: x goes behind what is queued
Enqueue(q, x) == Append(q, x)

\* a receive that leaves the item on the queue
DequeuePeek(q) == q

\* rx.recv() takes the oldest item off the queue
Dequeue(q) == Tail(q)

\* a receiver that reports closure as soon as nothing is queued
DisconnectedWhenEmpty(q, sender_alive) == q = <<>>

\* a receiver that reports closure as soon as the sender is gone
DisconnectedAtDrop(q, sender_alive) == ~sender_alive

\* rx.recv() yields None: nothing is queued and the sender is gone
Disconnected(q, sender_alive) == q = <<>> /\ ~sender_alive

\* the channels, tasks and directory as threaded_pipeline leaves them
LineNew ==
    /\ head = "open"
    /\ rx_buf = <<>>
    /\ converter_buf = None
    /\ converter_task = "running"
    /\ rx_bytes = <<>>
    /\ sink_buf = None
    /\ sink_task = "running"
    /\ files = <<>>
    /\ encoded = <<>>
    /\ writes = <<>>

\* DictValuesContainer::new, and no schema asked for yet
PlanNew ==
    /\ dictionaries = <<>>
    /\ schema = None
    /\ made = "none"
    /\ nplan = 0

\* timestamp_filename: <path>/<milliseconds since the epoch>.parquet
timestamp_filename(path, now) == [dir |-> path, stem |-> now, extension |-> "parquet"]

\* ParquetBuffer::new at time now: an empty buffer named after the time
ParquetBufferNew(path, now) ==
    [filename |-> timestamp_filename(path, now), batches |-> <<>>]

\* no writer, iterator or file ingestor in use
IoNew ==
    /\ num_batches = 1
    /\ in_memory = <<>>
    /\ writer = ParquetBufferNew("data/parquet", 0)
    /\ written = <<>>
    /\ accepted = <<>>
    /\ remaining = <<>>
    /\ input = <<>>
    /\ field_tag = 1
    /\ yielded = <<>>
    /\ ended = FALSE
    /\ serialization = "Parquet"
    /\ output = <<>>
    /\ result = "running"

Start == 0
Durations == {30, DefaultDuration}
RotMsgs == {DefaultMsg, BadId, BadInnerTag}

\* timestamps offered: around the end of the current window, and before its
\* beginning (the caller passes any `now`)
Nows(cur) == {cur.begin_at - 1, cur.end_at, cur.end_at + 1}

\* the record kept of a call: operation, result, timestamp, whether it
\* rotated, the batch a flush returned and len() before the call
Call(op, ok, now, rotated, batch, prelen) ==
    [op |-> op, ok |-> ok, now |-> now, rotated |-> rotated, batch |-> batch,
     prelen |-> prelen]

NoCall == Call("none", TRUE, Start, FALSE, None, 0)

Init ==
    /\ builder = NewConverter
    /\ batch_size \in 1..MaxBatch
    /\ period \in Durations
    /\ current = new_with_duration(Start, period)
    /\ sealed = <<>>
    /\ nmsg = 0
    /\ inwin = 0
    /\ nfail = 0
    /\ last = NoCall
    /\ clock = Start
    /\ rx = <<>>
    /\ rotator_task = "running"
    /\ LineNew
    /\ PlanNew
    /\ IoNew

\* rotator.ingest_potentially_blocking(msg, now)?
Ingest(msg, now) ==
    \E r \in {IngestResult(builder, current, batch_size, period, msg, now)} :
    /\ nmsg < MaxMsgs
    /\ r.ok \/ nfail < MaxFails
    /\ builder' = r.builder
    /\ current' = r.current
    /\ sealed' = IF r.ret # None THEN Append(sealed, r.ret[1]) ELSE sealed
    /\ nmsg' = nmsg + 1
    /\ inwin' = (IF r.rotated THEN 0 ELSE inwin) + (IF r.ok THEN 1 ELSE 0)
    /\ nfail' = nfail + (IF r.ok THEN 0 ELSE 1)
    /\ last' = Call("ingest", r.ok, now, r.rotated, None, BLen(builder))
    /\ UNCHANGED plan_vars
    /\ UNCHANGED io_vars
    /\ UNCHANGED <<batch_size, period, clock, rx, rotator_task>>
    /\ UNCHANGED line_vars

IngestCall == \E msg \in RotMsgs : \E now \in Nows(current) : Ingest(msg, now)

Next == IngestCall

Spec == Init /\ [][Next]_vars

(***************************************************************************)
(* The rotator fed with long pauses between messages.                      *)
(***************************************************************************)
MaxLateMsgs == 4   \* ingest calls per behaviour when pauses are offered

\* timestamps offered: those of Nows, and one more than two periods after
\* the end of the current window
LateNows(cur) == Nows(cur) \cup {cur.end_at + 2 * DefaultDuration + 1}

IngestLateCall ==
    /\ nmsg < MaxLateMsgs
    /\ \E msg \in RotMsgs : \E now \in LateNows(current) : Ingest(msg, now)

NextLate == IngestLateCall

SpecLate == Init /\ [][NextLate]_vars


(***************************************************************************)
(* The converter used on its own: append_message and records.              *)
(***************************************************************************)
InitConv ==
    /\ builder = NewConverter
    /\ batch_size = MaxBatch
    /\ period = DefaultDuration
    /\ current = TemporalBufferNew(Start)
    /\ sealed = <<>>
    /\ nmsg = 0
    /\ inwin = 0
    /\ nfail = 0
    /\ last = NoCall
    /\ clock = Start
    /\ rx = <<>>
    /\ rotator_task = "running"
    /\ LineNew
    /\ PlanNew
    /\ IoNew

\* converter.append_message(&msg)
AppendMessage(msg) ==
    \E r \in {append_message(builder, msg)} :
    /\ nmsg < MaxAppends
    /\ r.ok \/ nfail < MaxFails
    /\ builder' = r.b
    /\ nmsg' = nmsg + 1
    /\ nfail' = nfail + (IF r.ok THEN 0 ELSE 1)
    /\ last' = Call("append", r.ok, Start, FALSE, None, BLen(builder))
    /\ UNCHANGED plan_vars
    /\ UNCHANGED io_vars
    /\ UNCHANGED <<batch_size, period, current, sealed, inwin, clock, rx, rotator_task>>
    /\ UNCHANGED line_vars

\* converter.records()
Records ==
    \E r \in {records(builder)} :
    /\ builder' = r.b
    /\ last' = Call("records", TRUE, Start, FALSE, Some(r.batch), BLen(builder))
    /\ UNCHANGED plan_vars
    /\ UNCHANGED io_vars
    /\ UNCHANGED <<batch_size, period, current, sealed, nmsg, inwin, nfail, clock, rx,
                   rotator_task>>
    /\ UNCHANGED line_vars

AppendCall == \E msg \in Msgs : AppendMessage(msg)

NextConv == AppendCall \/ Records

SpecConv == InitConv /\ [][NextConv]_vars

(***************************************************************************)
(* The rotation task of the pipeline: pipeline/temporal_rotator.rs behind   *)
(* its input channel, with `now` read from the wall clock.                 *)
(***************************************************************************)
PipeMsgs == {DefaultMsg, BadId}
TickSteps == {1, DefaultDuration}

InitPipe ==
    /\ builder = NewConverter
    /\ batch_size \in 1..MaxBatch
    /\ period = DefaultDuration
    /\ current = TemporalBufferNew(Start)
    /\ sealed = <<>>
    /\ nmsg = 0
    /\ inwin = 0
    /\ nfail = 0
    /\ last = NoCall
    /\ clock = Start
    /\ rx = <<>>
    /\ rotator_task = "running"
    /\ LineNew
    /\ PlanNew
    /\ IoNew

\* head.send(msg)
Send(msg) ==
    /\ head = "open"
    /\ SendOk(rotator_task)
    /\ Len(rx) < MaxQueue
    /\ nmsg + Len(rx) < MaxSent
    /\ rx' = Append(rx, msg)
    /\ UNCHANGED plan_vars
    /\ UNCHANGED io_vars
    /\ UNCHANGED <<builder, batch_size, current, period, sealed, nmsg, inwin, nfail, last,
                   clock, rotator_task>>
    /\ UNCHANGED line_vars

\* a rotation task that also seals on a timer while it waits
OnIdleTimer(cur, out, now) ==
    IF now > cur.end_at
    THEN [current |-> TemporalBufferNew(now), sealed |-> Append(out, cur)]
    ELSE [current |-> cur, sealed |-> out]

\* what the rotation task does to its windows while it waits in rx.recv():
\* nothing, whatever the clock says
OnIdle(cur, out, now) == [current |-> cur, sealed |-> out]

\* time passes; the rotation task is parked in recv() or not scheduled
Tick(d) ==
    /\ clock + d <= MaxClock
    /\ clock' = clock + d
    /\ current' = OnIdle(current, sealed, clock + d).current
    /\ sealed' = OnIdle(current, sealed, clock + d).sealed
    /\ last' = Call("tick", TRUE, clock + d, FALSE, None, BLen(builder))
    /\ UNCHANGED plan_vars
    /\ UNCHANGED io_vars
    /\ UNCHANGED <<builder, batch_size, period, nmsg, inwin, nfail, rx, rotator_task>>
    /\ UNCHANGED line_vars

\* process_next: receive one message and ingest it at Utc::now(); the sealed
\* window is sent on tx before the message is appended, and a send to an
\* encoding task that has ended is PipelineClosed; what is still queued
\* when the loop is left stays unreceived
ProcessNext ==
    /\ rotator_task = "running"
    /\ rx # <<>>
    /\ \E r \in {IngestResult(builder, current, batch_size, period, Head(rx), clock)} :
       \E sent \in {r.old = None \/ SendOk(converter_task)} :
        /\ rx' = Tail(rx)
        /\ builder' = IF sent THEN r.builder ELSE finish(builder).b
        /\ current' = IF sent THEN r.current ELSE Replacement(clock, period)
        /\ sealed' = IF r.old # None /\ sent THEN Append(sealed, r.old[1]) ELSE sealed
        /\ rx_buf' = IF r.old # None /\ sent THEN Enqueue(rx_buf, r.old[1]) ELSE rx_buf
        /\ nmsg' = nmsg + 1
        /\ inwin' = IF sent
                    THEN (IF r.rotated THEN 0 ELSE inwin) + (IF r.ok THEN 1 ELSE 0)
                    ELSE 0
        /\ nfail' = nfail + (IF sent /\ ~r.ok THEN 1 ELSE 0)
        /\ rotator_task' = IF ~sent THEN "closed"
                           ELSE IF r.ok THEN "running" ELSE "failed"
        /\ last' = Call("ingest", sent /\ r.ok, clock, r.rotated, None, BLen(builder))
    /\ UNCHANGED plan_vars
    /\ UNCHANGED io_vars
    /\ UNCHANGED <<batch_size, period, clock, head, converter_buf, converter_task,
                   rx_bytes, sink_buf, sink_task, files, encoded, writes>>

SendCall == \E msg \in PipeMsgs : Send(msg)
TickCall == \E d \in TickSteps : Tick(d)

NextPipe == SendCall \/ TickCall \/ ProcessNext

SpecPipe == InitPipe /\ [][NextPipe]_vars


(***************************************************************************)
(* File names: TemporalBytes::begin_timestamp and FileSink::filename_for.  *)
(* A blob carries its bounds as seconds since the Unix epoch plus the       *)
(* milliseconds into the second; the rotation task's clock counts whole     *)
(* seconds.                                                                 *)
(***************************************************************************)
MillisPerSecond == 1000
SecondsPerDay == 86400

\* a DateTime<Utc>: timestamp() and timestamp_subsec_millis()
DateTime(secs, millis) == [secs |-> secs, millis |-> millis]

\* a whole second of the rotation task's clock as a DateTime
AtSecond(n) == DateTime(n, 0)

\* t + Duration::milliseconds(d)
PlusMillis(t, d) ==
    DateTime(t.secs + (t.millis + d) \div MillisPerSecond,
             (t.millis + d) % MillisPerSecond)

\* a < b on DateTimes
Earlier(a, b) == a.secs < b.secs \/ (a.secs = b.secs /\ a.millis < b.millis)

\* the proleptic Gregorian date of a day counted from 1970-01-01
CivilFromDays(days) ==
    LET z == days + 719468
        era == z \div 146097
        doe == z - era * 146097
        yoe == (doe - doe \div 1460 + doe \div 36524 - doe \div 146096) \div 365
        doy == doe - (365 * yoe + yoe \div 4 - yoe \div 100)
        mp == (5 * doy + 2) \div 153
        m == IF mp < 10 THEN mp + 3 ELSE mp - 9
    IN  [year |-> yoe + era * 400 + (IF m <= 2 THEN 1 ELSE 0),
         month |-> m,
         day |-> doy - (153 * mp + 2) \div 5 + 1]

\* two digits without the leading zero
Unpadded(n) == ToString(n)

\* %m, %d, %H, %M, %S: two digits, zero padded
Pad2(n) == IF n < 10 THEN "0" \o ToString(n) ELSE ToString(n)

\* %Y: four digits, zero padded
Pad4(n) ==
    IF n < 10 THEN "000" \o ToString(n)
    ELSE IF n < 100 THEN "00" \o ToString(n)
    ELSE IF n < 1000 THEN "0" \o ToString(n)
    ELSE ToString(n)

\* self.begin_at.format("%Y-%m-%d-%H%M%S_utc").to_string()
begin_timestamp(data) ==
    LET secs == data.begin_at.secs
        date == CivilFromDays(secs \div SecondsPerDay)
        sod == secs % SecondsPerDay
    IN  Pad4(date.year) \o "-" \o Pad2(date.month) \o "-" \o Pad2(date.day) \o "-"
        \o Pad2(sod \div 3600) \o Pad2((sod % 3600) \div 60) \o Pad2(sod % 60)
        \o "_utc"

Directory == "some_directory"

\* self.directory.join(data.begin_timestamp()).with_extension("parquet")
filename_for(directory, data) ==
    directory \o "/" \o begin_timestamp(data) \o ".parquet"

(***************************************************************************)
(* The encoding task (ParquetConverter) and the sink task (FileSink).      *)
(***************************************************************************)
MaxRowGroupSize == 10240

RECURSIVE NumRows(_)
NumRows(batches) ==
    IF batches = <<>> THEN 0 ELSE Head(batches).num_rows + NumRows(Tail(batches))

\* the parquet file ArrowWriter leaves in its Vec<u8>: the rows of the
\* batches in order, cut into row groups of at most MaxRowGroupSize rows
Encode(batches) ==
    [num_rows |-> NumRows(batches),
     num_row_groups |-> (NumRows(batches) + MaxRowGroupSize - 1) \div MaxRowGroupSize]

\* a blob that carries its window's bounds the wrong way round
TemporalBytesSwapped(begin_at, end_at, bytes) ==
    [begin_at |-> end_at, end_at |-> begin_at, bytes |-> bytes]

TemporalBytes(begin_at, end_at, bytes) ==
    [begin_at |-> begin_at, end_at |-> end_at, bytes |-> bytes]

Bounds(w) == [begin_at |-> w.begin_at, end_at |-> w.end_at]

\* the head Sender is dropped
DropHead ==
    /\ head = "open"
    /\ head' = "dropped"
    /\ UNCHANGED plan_vars
    /\ UNCHANGED io_vars
    /\ UNCHANGED <<builder, batch_size, current, period, sealed, nmsg, inwin, nfail, last,
                   clock, rx, rotator_task, rx_buf, converter_buf, converter_task,
                   rx_bytes, sink_buf, sink_task, files, encoded, writes>>

\* a rotation task that seals and sends its window when its input closes
OnClosedFlush(cur, b, q) ==
    Enqueue(q, [cur EXCEPT !.batches = Append(@, finish(b).batch)])

\* what the rotation task sends when recv() yields None: nothing, the `?`
\* returns PipelineClosed at once
OnClosed(cur, b, q) == q

\* process_next when recv() yields None: PipelineClosed leaves the loop and
\* the rotator is dropped with whatever it holds
ProcessNextClosed ==
    /\ rotator_task = "running"
    /\ Disconnected(rx, head = "open")
    /\ rotator_task' = "closed"
    /\ rx_buf' = OnClosed(current, builder, rx_buf)
    /\ last' = Call("closed", FALSE, clock, FALSE, None, BLen(builder))
    /\ UNCHANGED plan_vars
    /\ UNCHANGED io_vars
    /\ UNCHANGED <<builder, batch_size, current, period, sealed, nmsg, inwin, nfail,
                   clock, rx, head, converter_buf, converter_task,
                   rx_bytes, sink_buf, sink_task, files, encoded, writes>>

\* process_next_buffer up to the end of self.rx.recv().await
ProcessNextBufferRecv ==
    /\ converter_task = "running"
    /\ converter_buf = None
    /\ rx_buf # <<>> \/ Disconnected(rx_buf, rotator_task = "running")
    /\ IF rx_buf # <<>>
       THEN /\ converter_buf' = Some(Head(rx_buf))
            /\ rx_buf' = Dequeue(rx_buf)
            /\ UNCHANGED converter_task
       ELSE /\ converter_task' = "closed"
            /\ UNCHANGED <<converter_buf, rx_buf>>
    /\ UNCHANGED plan_vars
    /\ UNCHANGED io_vars
    /\ UNCHANGED <<builder, batch_size, current, period, sealed, nmsg, inwin, nfail, last,
                   clock, rx, rotator_task, head, rx_bytes, sink_buf, sink_task,
                   files, encoded, writes>>

\* the rest of process_next_buffer: encode the window's batches, then send
\* the blob; an encoder error or a send to a sink that has ended leaves the
\* loop, and the receiver is dropped with what is queued on it
ProcessNextBufferSend ==
    /\ converter_task = "running"
    /\ converter_buf # None
    /\ \E encode_ok \in BOOLEAN :
        /\ encode_ok \/ nfail < MaxFails
        /\ LET buf == converter_buf[1]
               data == TemporalBytes(AtSecond(buf.begin_at), AtSecond(buf.end_at),
                                     Encode(buf.batches))
               sent == encode_ok /\ SendOk(sink_task)
           IN  /\ converter_buf' = None
               /\ nfail' = nfail + (IF encode_ok THEN 0 ELSE 1)
               /\ encoded' = IF encode_ok THEN Append(encoded, Bounds(data)) ELSE encoded
               /\ rx_bytes' = IF sent THEN Enqueue(rx_bytes, data) ELSE rx_bytes
               /\ converter_task' = IF sent THEN "running"
                                    ELSE IF encode_ok THEN "closed" ELSE "failed"
               /\ rx_buf' = IF sent THEN rx_buf ELSE <<>>
    /\ UNCHANGED plan_vars
    /\ UNCHANGED io_vars
    /\ UNCHANGED <<builder, batch_size, current, period, sealed, nmsg, inwin, last,
                   clock, rx, rotator_task, head, sink_buf, sink_task, files, writes>>

\* sink_next up to the end of self.rx.recv().await
SinkNextRecv ==
    /\ sink_task = "running"
    /\ sink_buf = None
    /\ rx_bytes # <<>> \/ Disconnected(rx_bytes, converter_task = "running")
    /\ IF rx_bytes # <<>>
       THEN /\ sink_buf' = Some(Head(rx_bytes))
            /\ rx_bytes' = Dequeue(rx_bytes)
            /\ UNCHANGED sink_task
       ELSE /\ sink_task' = "closed"
            /\ UNCHANGED <<sink_buf, rx_bytes>>
    /\ UNCHANGED plan_vars
    /\ UNCHANGED io_vars
    /\ UNCHANGED <<builder, batch_size, current, period, sealed, nmsg, inwin, nfail, last,
                   clock, rx, rotator_task, head, rx_buf, converter_buf, converter_task,
                   files, encoded, writes>>

\* the rest of sink_next: fs::write(self.filename_for(&buf), buf.bytes)?
SinkNextWrite ==
    /\ sink_task = "running"
    /\ sink_buf # None
    /\ \E write_ok \in BOOLEAN :
        /\ write_ok \/ nfail < MaxFails
        /\ LET data == sink_buf[1]
               path == filename_for(Directory, data)
           IN  /\ sink_buf' = None
               /\ nfail' = nfail + (IF write_ok THEN 0 ELSE 1)
               /\ files' = IF write_ok THEN (path :> data.bytes) @@ files ELSE files
               /\ writes' = IF write_ok
                            THEN Append(writes, [begin_at |-> data.begin_at,
                                                 end_at |-> data.end_at,
                                                 path |-> path])
                            ELSE writes
               /\ sink_task' = IF write_ok THEN "running" ELSE "failed"
               /\ rx_bytes' = IF write_ok THEN rx_bytes ELSE <<>>
    /\ UNCHANGED plan_vars
    /\ UNCHANGED io_vars
    /\ UNCHANGED <<builder, batch_size, current, period, sealed, nmsg, inwin, last,
                   clock, rx, rotator_task, head, rx_buf, converter_buf, converter_task,
                   encoded>>

(***************************************************************************)
(* threaded_pipeline: the three loops behind the head channel.             *)
(***************************************************************************)
InitLine ==
    /\ builder = NewConverter
    /\ batch_size = MaxBatch
    /\ period = DefaultDuration
    /\ current = TemporalBufferNew(Start)
    /\ sealed = <<>>
    /\ nmsg = 0
    /\ inwin = 0
    /\ nfail = 0
    /\ last = NoCall
    /\ clock = Start
    /\ rx = <<>>
    /\ rotator_task = "running"
    /\ LineNew
    /\ PlanNew
    /\ IoNew

\* the time between two messages is longer than a window
TickPeriod == Tick(DefaultDuration + 1)

NextLine ==
    \/ SendCall
    \/ TickPeriod
    \/ DropHead
    \/ ProcessNext
    \/ ProcessNextClosed
    \/ ProcessNextBufferRecv
    \/ ProcessNextBufferSend
    \/ SinkNextRecv
    \/ SinkNextWrite

SpecLine == InitLine /\ [][NextLine]_vars

\* ENABLED ProcessNext, written out: the step is total on its guard
ProcessNextEnabled == rotator_task = "running" /\ rx # <<>>

\* weak fairness of ProcessNext
ProcessNextFair == []<>(~ProcessNextEnabled) \/ []<><<ProcessNext>>_vars

\* every loop is a thread of its own (or a task on a pool with a worker per
\* task): none waits forever for a step it can take
FairLine ==
    /\ SpecLine
    /\ ProcessNextFair
    /\ WF_vars(ProcessNextClosed)
    /\ WF_vars(ProcessNextBufferRecv)
    /\ WF_vars(ProcessNextBufferSend)
    /\ WF_vars(SinkNextRecv)
    /\ WF_vars(SinkNextWrite)


(***************************************************************************)
(* The sink on its own, fed through its channel as in file_sink.rs's tests: *)
(* blobs of consecutive windows of one batch period.  Here `period` is in   *)
(* milliseconds and `clock` is the begin_at of the next blob, a DateTime.   *)
(***************************************************************************)
MaxBlobs == 3   \* blobs sent to the sink per behaviour

\* Utc.timestamp_nanos(1678307941000000000), and a minute before a leap day
SinkStarts == {DateTime(1678307941, 0), DateTime(951782340, 0)}

\* Duration::from_millis(5) and Duration::seconds(60)
BatchPeriods == {5, DefaultDuration * MillisPerSecond}

\* the time from the end of a window to the message that seals it
SealGaps == {1, MillisPerSecond}

\* an empty parquet file and one holding a row
SinkBytes == {Encode(<<>>), Encode(<<[num_rows |-> 1]>>)}

InitSink ==
    /\ builder = NewConverter
    /\ batch_size = MaxBatch
    /\ period \in BatchPeriods
    /\ current = TemporalBufferNew(Start)
    /\ sealed = <<>>
    /\ nmsg = 0
    /\ inwin = 0
    /\ nfail = 0
    /\ last = NoCall
    /\ clock \in SinkStarts
    /\ rx = <<>>
    /\ rotator_task = "running"
    /\ LineNew
    /\ PlanNew
    /\ IoNew

\* tx.send(data): the blob of the window [clock, clock + period]
SendBytes(bytes, gap) ==
    /\ converter_task = "running"
    /\ SendOk(sink_task)
    /\ Len(encoded) < MaxBlobs
    /\ Len(rx_bytes) < MaxQueue
    /\ \E data \in {TemporalBytes(clock, PlusMillis(clock, period), bytes)} :
        /\ rx_bytes' = Enqueue(rx_bytes, data)
        /\ encoded' = Append(encoded, Bounds(data))
    /\ clock' = PlusMillis(clock, period + gap)
    /\ UNCHANGED plan_vars
    /\ UNCHANGED io_vars
    /\ UNCHANGED <<builder, batch_size, current, period, sealed, nmsg, inwin, nfail, last,
                   rx, rotator_task, head, rx_buf, converter_buf, converter_task,
                   sink_buf, sink_task, files, writes>>

\* the sending end of the sink's channel is dropped
DropTx ==
    /\ converter_task = "running"
    /\ converter_task' = "closed"
    /\ UNCHANGED plan_vars
    /\ UNCHANGED io_vars
    /\ UNCHANGED <<builder, batch_size, current, period, sealed, nmsg, inwin, nfail, last,
                   clock, rx, rotator_task, head, rx_buf, converter_buf, rx_bytes,
                   sink_buf, sink_task, files, encoded, writes>>

SendBytesCall == \E bytes \in SinkBytes : \E gap \in SealGaps : SendBytes(bytes, gap)

NextSink == SendBytesCall \/ DropTx \/ SinkNextRecv \/ SinkNextWrite

SpecSink == InitSink /\ [][NextSink]_vars

(***************************************************************************)
(* Properties                                                              *)
(***************************************************************************)
BatchRows(bs) == [i \in 1..Len(bs) |-> bs[i].num_rows]

RECURSIVE SumSeq(_)
SumSeq(q) == IF q = <<>> THEN 0 ELSE Head(q) + SumSeq(Tail(q))

\* rows held by a window's batches plus those buffered in the converter
RowsHeld(cur, b) == SumSeq(BatchRows(cur.batches)) + BLen(b)

SameBounds(w, v) == w.begin_at = v.begin_at /\ w.end_at = v.end_at

\* this step is a call of ingest
IngestStep == nmsg' = nmsg + 1 /\ last'.op = "ingest"

\* C1: ingest(msg, now) replaces the current window if and only if
\* now > current.end_at; for now <= current.end_at (now = end_at included)
\* nothing is sealed or returned, the window keeps its bounds, and a
\* successful call adds exactly the message's row to it.
C1_SealsIffStrictlyAfterEnd ==
    [][IngestStep =>
        /\ ~SameBounds(current', current) <=> last'.now > current.end_at
        /\ last'.now <= current.end_at =>
              /\ sealed' = sealed
              /\ SameBounds(current', current)
              /\ last'.ok => RowsHeld(current', builder') = RowsHeld(current, builder) + 1
              /\ ~last'.ok => RowsHeld(current', builder') = RowsHeld(current, builder)
        /\ last'.now > current.end_at /\ last'.ok =>
              /\ Len(sealed') = Len(sealed) + 1
              /\ SameBounds(sealed'[Len(sealed')], current)]_vars

\* a successful ingest stamped exactly end_at that stayed in the window
C1_Witness ==
    /\ last.op = "ingest"
    /\ last.ok
    /\ last.now = current.end_at
    /\ inwin >= 2
    /\ sealed = <<>>

\* C2: every sealed window has begin_at < end_at and spans exactly the
\* period the rotator was constructed with.
C2_SealedSpanIsPeriod ==
    \A i \in 1..Len(sealed) :
        /\ sealed[i].begin_at < sealed[i].end_at
        /\ sealed[i].end_at - sealed[i].begin_at = period

\* C3: windows sealed earlier end no later than windows sealed later begin,
\* and begin_at increases along the sealed windows.
C3_SealedWindowsDisjoint ==
    \A i, j \in 1..Len(sealed) :
        i < j => /\ sealed[i].end_at <= sealed[j].begin_at
                 /\ sealed[i].begin_at < sealed[j].begin_at

C3_Witness ==
    /\ Len(sealed) >= 3
    /\ last.op = "ingest"
    /\ last.rotated

\* C4: a failed ingest leaves the rotator as it was: same current window
\* (bounds and batches), same number of buffered rows, same sealed windows.
C4_FailedIngestChangesNothing ==
    [][IngestStep /\ ~last'.ok =>
        /\ current' = current
        /\ BLen(builder') = BLen(builder)
        /\ sealed' = sealed]_vars

\* every column of b2 is one row longer than in b1, at the root and inside
\* nested structs
RECURSIVE AdvancedByOne(_, _)
AdvancedByOne(b2, b1) ==
    /\ BLen(b2) = BLen(b1) + 1
    /\ IsStructBuilder(b1) =>
          \A i \in DOMAIN b1.kids : AdvancedByOne(b2.kids[i], b1.kids[i])

AppendStep == nmsg' = nmsg + 1 /\ last'.op = "append"

\* C5: append_message is atomic: on success every column builder advances
\* by one row, on failure no builder has changed.
C5_AppendIsAtomic ==
    [][AppendStep =>
        /\ last'.ok => AdvancedByOne(builder', builder)
        /\ ~last'.ok => builder' = builder]_vars

\* all children of every StructBuilder in the tree are as long as it is
RECURSIVE SiblingsEqual(_)
SiblingsEqual(b) ==
    IF IsStructBuilder(b)
    THEN \A i \in DOMAIN b.kids : BLen(b.kids[i]) = BLen(b) /\ SiblingsEqual(b.kids[i])
    ELSE IF "values" \in DOMAIN b THEN SiblingsEqual(b.values)
    ELSE TRUE

\* C6: after every successful append_message the sibling builders of every
\* level of the tree have the same len.
C6_SiblingsEqualAfterAppend ==
    last.op = "append" /\ last.ok => SiblingsEqual(builder)

C8_BatchesAreFloorAndRemainder ==
    /\ Len(current.batches) = inwin \div batch_size
    /\ \A i \in 1..Len(current.batches) : current.batches[i].num_rows = batch_size
    /\ BLen(builder) = inwin % batch_size

\* n = 2, k = 5: two batches and one buffered row
C8_Witness ==
    /\ batch_size = 2
    /\ inwin = 5
    /\ Len(current.batches) = 2
    /\ BLen(builder) = 1

\* C9: a successful rotating ingest hands out the old window with its
\* batches in order followed by one batch of the rows that were buffered;
\* the message itself is the only row of the new window.
C9_SealedWindowHoldsBufferedRows ==
    [][IngestStep /\ last'.ok /\ last'.rotated =>
        /\ Len(sealed') = Len(sealed) + 1
        /\ SameBounds(sealed'[Len(sealed')], current)
        /\ sealed'[Len(sealed')].batches =
              Append(current.batches, [num_rows |-> BLen(builder), columns |-> builder.kids])
        /\ RowsHeld(current', builder') = 1
        /\ batch_size > 1 => current'.batches = <<>> /\ BLen(builder') = 1]_vars

\* records_per_batch = 2, five messages, then the rotating sixth
C9_Witness ==
    /\ last.op = "ingest"
    /\ last.ok
    /\ last.rotated
    /\ batch_size = 2
    /\ BatchRows(sealed[Len(sealed)].batches) = <<2, 2, 1>>
    /\ current.batches = <<>>
    /\ BLen(builder) = 1

\* C10: the windows change (one is sealed and emitted, a new one opened)
\* only in a step that takes a message from the channel; the passing of
\* time alone never emits a window.
C10_SealsOnlyOnMessage ==
    [][(sealed' # sealed \/ current' # current) =>
        /\ rx # <<>>
        /\ rx' = Tail(rx)
        /\ nmsg' = nmsg + 1]_vars

\* a window holding rows whose end_at has passed, no message waiting, and
\* still not emitted after more time went by
C10_Witness ==
    /\ last.op = "tick"
    /\ clock > current.end_at + DefaultDuration
    /\ rx = <<>>
    /\ inwin >= 1
    /\ sealed = <<>>

(***************************************************************************)
(* Properties of the pipeline                                              *)
(***************************************************************************)
Tasks == <<rotator_task, converter_task, sink_task>>

\* the position of a blob's window among the windows the rotator sealed
SealIndex(begin_at) ==
    CHOOSE k \in 0..Len(sealed) :
        IF \E i \in 1..Len(sealed) : AtSecond(sealed[i].begin_at) = begin_at
        THEN k > 0 /\ AtSecond(sealed[k].begin_at) = begin_at
        ELSE k = 0

\* begin_at of every blob the sink has taken off its channel and written,
\* followed by the one it holds
ReachedSink ==
    [i \in 1..Len(writes) |-> writes[i].begin_at]
        \o (IF sink_buf # None THEN <<sink_buf[1].begin_at>> ELSE <<>>)

\* C11: in every interleaving of the three tasks the windows reach the sink
\* in the order the rotator sealed them, which is strictly increasing
\* begin_at order.
C11_SinkOrderIsSealOrder ==
    \A i, j \in 1..Len(ReachedSink) :
        i < j =>
            /\ Earlier(ReachedSink[i], ReachedSink[j])
            /\ SealIndex(ReachedSink[i]) > 0
            /\ SealIndex(ReachedSink[i]) < SealIndex(ReachedSink[j])

\* two windows were sealed, encoded and written
C11_Witness ==
    /\ Len(sealed) >= 2
    /\ Len(writes) >= 2
    /\ writes[1].begin_at = AtSecond(sealed[1].begin_at)
    /\ writes[2].begin_at = AtSecond(sealed[2].begin_at)

\* q2 is what is left of q after some receives: nothing was added to it
Remainder(q2, q) == \E n \in 0..Len(q) : q2 = SubSeq(q, n + 1, Len(q))

\* C12: once the head channel is dropped and Q_msg is drained, the receive
\* of the rotation task ends it with PipelineClosed; that step sends nothing,
\* and nothing is sent after it: the batches of the open window and the rows
\* buffered in the converter never go downstream.
C12_ClosureDoesNotFlush ==
    [][/\ (/\ head = "dropped"
           /\ rx = <<>>
           /\ rotator_task = "running"
           /\ rotator_task' # "running")
          => /\ rotator_task' = "closed"
             /\ sealed' = sealed
             /\ Remainder(rx_buf', rx_buf)
       /\ rotator_task = "closed"
          => /\ rotator_task' = "closed"
             /\ sealed' = sealed
             /\ Remainder(rx_buf', rx_buf)]_vars

\* every task has ended with PipelineClosed after the head was dropped, the
\* open window held a full batch and the converter a row, and no file was
\* ever written
C12_Witness ==
    /\ head = "dropped"
    /\ rotator_task = "closed"
    /\ converter_task = "closed"
    /\ sink_task = "closed"
    /\ current.batches # <<>>
    /\ BLen(builder) >= 1
    /\ sealed = <<>>
    /\ writes = <<>>

AllRunning ==
    rotator_task = "running" /\ converter_task = "running" /\ sink_task = "running"

AllClosed ==
    rotator_task = "closed" /\ converter_task = "closed" /\ sink_task = "closed"

\* the k-th sealed window, if there is one, has been written
Written(k) ==
    Len(sealed) >= k =>
        \E i \in 1..Len(writes) : writes[i].begin_at = AtSecond(sealed[k].begin_at)

\* the encoder or the file system reported an error
WriterFault == converter_task = "failed" \/ sink_task = "failed"

\* C13: after the messages are sent and the head channel is dropped, every
\* task eventually ends with PipelineClosed and every window sealed by then
\* is encoded and written (unless the encoder or the file system fails).
C13_DropClosesAllAndDrainsSealed ==
    (head = "dropped") ~> ((AllClosed /\ \A k \in 1..MaxSent : Written(k)) \/ WriterFault)

\* some loop was left with an error of its own stage
StageFailed ==
    rotator_task = "failed" \/ converter_task = "failed" \/ sink_task = "failed"

\* C14: with every loop scheduled fairly and no stage failing, a window
\* that a later message sealed is eventually encoded and written, with the
\* rows it held.
C14_SealedIsEventuallyWritten ==
    \A k \in 1..MaxSent : (Len(sealed) >= k) ~> (Written(k) \/ StageFailed)

\* the head is open, nothing failed, and the file of the first window holds
\* the rows ingested before it was sealed
C14_Witness ==
    /\ head = "open"
    /\ ~StageFailed
    /\ AllRunning
    /\ Len(writes) >= 1
    /\ files[writes[1].path].num_rows > 0
    /\ files[writes[1].path].num_rows = NumRows(sealed[1].batches)

\* C15: a step in which a stage reports an item-level error (a message that
\* does not convert, a window that does not encode, a blob that is not
\* written) leaves every loop running: only the item is lost.
C15_ItemErrorKeepsPipelineRunning ==
    [][nfail' > nfail =>
        /\ rotator_task' = rotator_task
        /\ converter_task' = converter_task
        /\ sink_task' = sink_task]_vars

\* C16: a loop ends with PipelineClosed only after the head channel was
\* dropped: while the head is open, the error of one stage ends no other
\* loop.
C16_StageErrorEndsOnlyItsTask ==
    head = "open" =>
        /\ rotator_task # "closed"
        /\ converter_task # "closed"
        /\ sink_task # "closed"

\* C17: a loop is running, or was left with PipelineClosed or with another
\* error (its Ok type is Infallible); while the head channel is open and no
\* stage has reported an error, every loop is running.
C17_LoopsEndOnlyWithError ==
    /\ \A i \in 1..Len(Tasks) : Tasks[i] \in {"running", "closed", "failed"}
    /\ (head = "open" /\ nfail = 0) => AllRunning

\* two windows went through all three loops, and every loop still runs
C17_Witness ==
    /\ head = "open"
    /\ nfail = 0
    /\ AllRunning
    /\ Len(writes) >= 2
    /\ rx_buf = <<>> /\ rx_bytes = <<>>
    /\ converter_buf = None /\ sink_buf = None

\* how many items of a queue (or of a stage's hand) carry a window's begin_at
Holding(q, begin_at) ==
    Cardinality({i \in 1..Len(q) : Bounds(q[i]).begin_at = begin_at})

\* the places a sealed window can be in, as a window or as its blob
InWindowQueue(w) == Holding(rx_buf, w.begin_at)
InEncoder(w) == Holding(converter_buf, w.begin_at)
InBlobQueue(w) == Holding(rx_bytes, AtSecond(w.begin_at))
InSink(w) == Holding(sink_buf, AtSecond(w.begin_at))

Owners(w) == InWindowQueue(w) + InEncoder(w) + InBlobQueue(w) + InSink(w)

TimesEncoded(w) == Holding(encoded, AtSecond(w.begin_at))
TimesWritten(w) == Holding(writes, AtSecond(w.begin_at))

\* C18: a sealed window is never in two places at once, it is encoded at
\* most once and written at most once, and until it is written it is in
\* exactly one of Q_window, the encoder, Q_blob and the sink (unless the
\* encoder or the file system failed and dropped what the stage held).
C18_OneOwnerPerWindow ==
    \A k \in 1..Len(sealed) :
        LET w == sealed[k] IN
        /\ Owners(w) + TimesWritten(w) <= 1
        /\ TimesEncoded(w) <= 1
        /\ TimesWritten(w) <= 1
        /\ TimesEncoded(w) = InBlobQueue(w) + InSink(w) + TimesWritten(w)
              \/ ~SendOk(sink_task)
        /\ ~WriterFault => Owners(w) + TimesWritten(w) = 1

\* one window is with the sink as a blob while the next is with the encoder
C18_Witness ==
    /\ Len(sealed) = 2
    /\ InSink(sealed[1]) = 1
    /\ InEncoder(sealed[2]) = 1
    /\ TimesEncoded(sealed[1]) = 1
    /\ TimesEncoded(sealed[2]) = 0

(***************************************************************************)
(* Properties of the sink's files                                          *)
(***************************************************************************)
\* C19: whatever the batch period, every blob the sink wrote has a file of
\* its own: as many files as blobs written, and no two blobs of distinct
\* windows under one path.
C19_OneFilePerWindow ==
    /\ Cardinality(DOMAIN files) = Len(writes)
    /\ \A i, j \in 1..Len(writes) :
        writes[i].begin_at # writes[j].begin_at => writes[i].path # writes[j].path

\* file stems of known instants: the instant of the tests, the turn of a
\* leap day, and the minutes that follow them
KnownStamps ==
    (1678307941 :> "2023-03-08-203901_utc")
    @@ (1678308001 :> "2023-03-08-204001_utc")
    @@ (1678308061 :> "2023-03-08-204101_utc")
    @@ (951782340 :> "2000-02-28-235900_utc")
    @@ (951782400 :> "2000-02-29-000000_utc")
    @@ (951782460 :> "2000-02-29-000100_utc")

\* C20: the path of a written blob is the directory, the UTC time of
\* begin_at as YYYY-MM-DD-HHMMSS_utc and the extension .parquet, whatever
\* end_at and the bytes are: 2023-03-08T20:39:01Z gives
\* 2023-03-08-203901_utc.parquet.
C20_PathIsStampOfBeginAt ==
    \A i \in 1..Len(writes) :
        /\ writes[i].begin_at.secs \in DOMAIN KnownStamps
            => writes[i].path
                 = Directory \o "/" \o KnownStamps[writes[i].begin_at.secs] \o ".parquet"
        /\ writes[i].path \in DOMAIN files
        /\ \A j \in 1..Len(writes) :
            writes[i].begin_at = writes[j].begin_at => writes[i].path = writes[j].path

\* the blob of a 5 ms window that begins at the tests' instant and holds a
\* row was written under the tests' file name
C20_Witness ==
    /\ Len(writes) >= 1
    /\ writes[1].begin_at = DateTime(1678307941, 0)
    /\ writes[1].end_at = DateTime(1678307941, 5)
    /\ writes[1].path = "some_directory/2023-03-08-203901_utc.parquet"
    /\ files[writes[1].path].num_rows = 1

(***************************************************************************)
(* Properties of the encoding task                                         *)
(***************************************************************************)
\* this step is the encode-and-send half of process_next_buffer
EncodeStep == converter_buf # None /\ converter_buf' = None

\* C21: a blob is sent only by the step that encodes a received window, and
\* it carries that window's bounds and rows; a successful encode (to a sink
\* that is alive) sends exactly one blob, a failed encode sends nothing and
\* keeps nothing of the window.
C21_OneBlobPerEncodedWindow ==
    [][/\ Len(rx_bytes') > Len(rx_bytes)
          => /\ EncodeStep
             /\ Len(rx_bytes') = Len(rx_bytes) + 1
             /\ SubSeq(rx_bytes', 1, Len(rx_bytes)) = rx_bytes
             /\ rx_bytes'[Len(rx_bytes')].begin_at = AtSecond(converter_buf[1].begin_at)
             /\ rx_bytes'[Len(rx_bytes')].end_at = AtSecond(converter_buf[1].end_at)
             /\ rx_bytes'[Len(rx_bytes')].bytes.num_rows = NumRows(converter_buf[1].batches)
       /\ (EncodeStep /\ nfail' = nfail /\ SendOk(sink_task))
          => Len(rx_bytes') = Len(rx_bytes) + 1
       /\ (EncodeStep /\ nfail' > nfail)
          => /\ rx_bytes' = rx_bytes
             /\ encoded' = encoded
             /\ converter_task' = "failed"]_vars

\* a window holding rows was encoded and its blob is queued for the sink,
\* after nothing had been queued while the window was still with the encoder
C21_Witness ==
    /\ Len(encoded) = 1
    /\ converter_buf = None
    /\ Len(rx_bytes) = 1
    /\ rx_bytes[1].begin_at = AtSecond(sealed[1].begin_at)
    /\ rx_bytes[1].end_at = AtSecond(sealed[1].end_at)
    /\ rx_bytes[1].bytes.num_rows > 0
    /\ writes = <<>>

(***************************************************************************)
(* Schema conversion: protobuf descriptors to arrow fields.  A field       *)
(* descriptor is [name, kind, is_list], with the value names of an Enum    *)
(* in declaration order and the field descriptors of a Message.  An arrow  *)
(* Field is [name, dict_id, type], with the fields of a Struct and the     *)
(* item field of a List.                                                   *)
(***************************************************************************)
MaxPlan == 4   \* calls on the schema converter and the container per behaviour

Max(S) == CHOOSE x \in S : \A y \in S : y <= x

\* a container that numbers its dictionaries from 0
add_dictionary_from_zero(d, dict_values) ==
    LET new_id == (IF DOMAIN d = {} THEN -1 ELSE Max(DOMAIN d)) + 1
    IN  [id |-> new_id, d |-> (new_id :> dict_values) @@ d]

\* DictValuesContainer::add_dictionary: the id it returns and the container
add_dictionary(d, dict_values) ==
    LET new_id == (IF DOMAIN d = {} THEN 0 ELSE Max(DOMAIN d)) + 1
    IN  [id |-> new_id, d |-> (new_id :> dict_values) @@ d]

\* DictValuesContainer::get_dict_values
get_dict_values(d, dict_id) ==
    IF dict_id \in DOMAIN d THEN Some(d[dict_id]) ELSE None

\* Field::new(name, data_type, true): dict_id is 0 by default
FieldNew(name, data_type) == [name |-> name, dict_id |-> 0] @@ data_type

\* Field::new_dict(name, data_type, true, dict_id, is_ordered)
FieldNewDict(name, data_type, id) == [name |-> name, dict_id |-> id] @@ data_type

\* Field::dict_id: Some only for a field of Dictionary type
dict_id(field) == IF field.type = "Dictionary" THEN Some(field.dict_id) ELSE None

RECURSIVE to_arrow_mut(_, _)
RECURSIVE kind_to_type(_, _)
RECURSIVE ToArrowFrom(_, _, _, _)

\* fields.map(|f| self.to_arrow_mut(&f)).collect(), the container threaded
\* through the fields in declaration order
ToArrowFrom(d, fds, i, acc) ==
    IF i > Len(fds) THEN [d |-> d, fields |-> acc]
    ELSE LET r == to_arrow_mut(d, fds[i])
         IN  ToArrowFrom(r.d, fds, i + 1, Append(acc, r.field))

\* FieldConverter::kind_to_type of the kind of descriptor f
kind_to_type(d, f) ==
    CASE f.kind = "Message" ->
            IF Len(f.fields) > 0
            THEN LET r == ToArrowFrom(d, f.fields, 1, <<>>)
                 IN  [d |-> r.d, type |-> [type |-> "Struct", fields |-> r.fields]]
            ELSE [d |-> d, type |-> [type |-> "Boolean"]]
      [] f.kind = "Enum" -> [d |-> d, type |-> [type |-> "Dictionary"]]
      [] f.kind \in {"Int32", "Sint32", "Sfixed32"} -> [d |-> d, type |-> [type |-> "Int32"]]
      [] f.kind = "Bool" -> [d |-> d, type |-> [type |-> "Boolean"]]
      [] f.kind = "String" -> [d |-> d, type |-> [type |-> "Utf8"]]

\* FieldConverter::to_arrow_mut: the arrow field of descriptor f and the
\* container after it
to_arrow_mut(d, f) ==
    LET k == kind_to_type(d, f) IN
    IF f.is_list
    THEN [d |-> k.d,
          field |-> FieldNew(f.name, [type |-> "List", inner |-> FieldNew("item", k.type)])]
    ELSE IF k.type.type = "Dictionary"
    THEN LET a == add_dictionary(k.d, f.values)
         IN  [d |-> a.d, field |-> FieldNewDict(f.name, k.type, a.id)]
    ELSE [d |-> k.d, field |-> FieldNew(f.name, k.type)]

RECURSIVE project_fields(_, _, _)
RECURSIVE ProjectFrom(_, _, _, _)

\* a projection that looks the bare field name up, whatever the prefix
ProjectFromUnqualified(prefix, fields, projection, i) ==
    IF i > Len(fields) THEN <<>>
    ELSE LET f == fields[i]
             name == f.name
             rest == ProjectFrom(prefix, fields, projection, i + 1)
         IN  IF name \in projection THEN <<f>> \o rest
             ELSE IF f.type = "Struct"
             THEN LET subkeep == project_fields(name, f.fields, projection)
                  IN  IF Len(subkeep) > 0
                      THEN <<FieldNew(f.name, [type |-> "Struct", fields |-> subkeep])>>
                           \o rest
                      ELSE rest
             ELSE rest

\* the `for f in fields` loop of project_fields from field i on
ProjectFrom(prefix, fields, projection, i) ==
    IF i > Len(fields) THEN <<>>
    ELSE LET f == fields[i]
             name == IF prefix = "" THEN f.name ELSE prefix \o "." \o f.name
             rest == ProjectFrom(prefix, fields, projection, i + 1)
         IN  IF name \in projection THEN <<f>> \o rest
             ELSE IF f.type = "Struct"
             THEN LET subkeep == project_fields(name, f.fields, projection)
                  IN  IF Len(subkeep) > 0
                      THEN <<FieldNew(f.name, [type |-> "Struct", fields |-> subkeep])>>
                           \o rest
                      ELSE rest
             ELSE rest

project_fields(prefix, fields, projection) == ProjectFrom(prefix, fields, projection, 1)

\* SchemaConverter::get_arrow_schema_with_dictionaries for a message that the
\* pool holds: the schema, and the container stored under the message's name
get_arrow_schema_with_dictionaries(msg, projection) ==
    LET r == ToArrowFrom(<<>>, msg, 1, <<>>)
    IN  [schema |-> IF projection = {} THEN r.fields
                    ELSE project_fields("", r.fields, projection),
         dictionaries |-> r.d]

RECURSIVE make_builder_with(_, _)
RECURSIVE TryFromFieldsWith(_, _, _)

\* BuilderFactory::try_from_fields of a factory that holds dictionaries d:
\* the first error of make_builder, or Ok
TryFromFieldsWith(d, fields, i) ==
    IF i > Len(fields) THEN "ok"
    ELSE IF make_builder_with(d, fields[i]) # "ok" THEN make_builder_with(d, fields[i])
    ELSE TryFromFieldsWith(d, fields, i + 1)

\* BuilderFactory::make_builder with dictionaries Some(d)
make_builder_with(d, field) ==
    LET inner_field == IF field.type = "List" THEN field.inner ELSE field IN
    CASE inner_field.type = "Dictionary" ->
            IF dict_id(inner_field) = None
               \/ get_dict_values(d, dict_id(inner_field)[1]) = None
            THEN "DictNotFound"
            ELSE "ok"
      [] inner_field.type = "Struct" -> TryFromFieldsWith(d, inner_field.fields, 1)
      [] OTHER -> "ok"

\* RecordBatchConverter::try_new_with_dictionaries
try_new_with_dictionaries(fields, d) == TryFromFieldsWith(d, fields, 1)

(***************************************************************************)
(* Descriptors offered to the schema converter                             *)
(***************************************************************************)
ModeValues == <<"OFF", "ON">>

Scalar(name, kind) == [name |-> name, kind |-> kind, is_list |-> FALSE]
Repeated(name, kind) == [name |-> name, kind |-> kind, is_list |-> TRUE]
EnumOf(fd, values) == fd @@ [values |-> values]
MessageOf(fd, fields) == fd @@ [fields |-> fields]

\* message MessageWithNestedEnum { SomeRandomEnum status = 1; }
NestedEnumDesc == << EnumOf(Scalar("status", "Enum"), StatusValues) >>

SubDesc ==
    << Scalar("x", "Int32"),
       EnumOf(Scalar("mode", "Enum"), ModeValues),
       Scalar("tag", "String") >>

\* a scalar, an enum, a nested message holding an enum, a repeated scalar
\* and a repeated message holding an enum
PacketDesc ==
    << Scalar("id", "Int32"),
       EnumOf(Scalar("status", "Enum"), StatusValues),
       MessageOf(Scalar("inner", "Message"), SubDesc),
       Repeated("vals", "Int32"),
       MessageOf(Repeated("items", "Message"), SubDesc) >>

\* a message with a repeated enum field
RepeatedEnumDesc ==
    << Scalar("id", "Int32"),
       EnumOf(Repeated("flags", "Enum"), StatusValues) >>

\* a message holding a message without fields
UnitDesc ==
    << MessageOf(Scalar("unit", "Message"), <<>>),
       Scalar("b", "Bool") >>

\* messages nested three deep
DeepDesc ==
    << MessageOf(Scalar("outer", "Message"),
           << MessageOf(Scalar("mid", "Message"),
                  << Scalar("leaf", "Int32"), Scalar("other", "String") >>),
              Scalar("z", "Int32") >>),
       Scalar("id", "Int32") >>

Descriptors == {NestedEnumDesc, PacketDesc, RepeatedEnumDesc, UnitDesc, DeepDesc}

Projections ==
    { {}, {"id"}, {"inner.x"}, {"inner"}, {"inner.mode", "vals"}, {"items.x"},
      {"status", "inner.tag", "b"}, {"x"}, {"outer.mid.leaf", "id"}, {"outer.mid", "outer.z"},
      {"mid.leaf", "leaf"} }

DictValues == {StatusValues, ModeValues}

(***************************************************************************)
(* The schema converter and the container used on their own                *)
(***************************************************************************)
InitSchema ==
    /\ builder = NewConverter
    /\ batch_size = MaxBatch
    /\ period = DefaultDuration
    /\ current = TemporalBufferNew(Start)
    /\ sealed = <<>>
    /\ nmsg = 0
    /\ inwin = 0
    /\ nfail = 0
    /\ last = NoCall
    /\ clock = Start
    /\ rx = <<>>
    /\ rotator_task = "running"
    /\ LineNew
    /\ PlanNew
    /\ IoNew

\* holder.add_dictionary(dict_values)
AddDictionary(dict_values) ==
    \E a \in {add_dictionary(dictionaries, dict_values)} :
    /\ nplan < MaxPlan
    /\ dictionaries' = a.d
    /\ last' = [op |-> "add_dictionary", id |-> a.id]
    /\ nplan' = nplan + 1
    /\ UNCHANGED <<schema, made>>
    /\ UNCHANGED <<builder, batch_size, current, period, sealed, nmsg, inwin, nfail,
                   clock, rx, rotator_task>>
    /\ UNCHANGED line_vars
    /\ UNCHANGED io_vars

\* converter.get_arrow_schema_with_dictionaries(name, projection)
GetArrowSchema(msg, projection) ==
    \E r \in {get_arrow_schema_with_dictionaries(msg, projection)} :
    /\ nplan < MaxPlan
    /\ schema' = Some(r.schema)
    /\ dictionaries' = r.dictionaries
    /\ made' = "none"
    /\ last' = [op |-> "get_arrow_schema", projection |-> projection, msg |-> msg]
    /\ nplan' = nplan + 1
    /\ UNCHANGED <<builder, batch_size, current, period, sealed, nmsg, inwin, nfail,
                   clock, rx, rotator_task>>
    /\ UNCHANGED line_vars
    /\ UNCHANGED io_vars

\* RecordBatchConverter::try_new_with_dictionaries(schema, batch_size, dictionaries)
TryNewWithDictionaries ==
    /\ nplan < MaxPlan
    /\ schema # None
    /\ made' = try_new_with_dictionaries(schema[1], dictionaries)
    /\ last' = [op |-> "try_new_with_dictionaries"]
    /\ nplan' = nplan + 1
    /\ UNCHANGED <<dictionaries, schema>>
    /\ UNCHANGED <<builder, batch_size, current, period, sealed, nmsg, inwin, nfail,
                   clock, rx, rotator_task>>
    /\ UNCHANGED line_vars
    /\ UNCHANGED io_vars

AddDictionaryCall == \E dict_values \in DictValues : AddDictionary(dict_values)

GetArrowSchemaCall ==
    \E msg \in Descriptors : \E projection \in Projections : GetArrowSchema(msg, projection)

NextSchema == AddDictionaryCall \/ GetArrowSchemaCall \/ TryNewWithDictionaries

SpecSchema == InitSchema /\ [][NextSchema]_vars

(***************************************************************************)
(* Properties of the schema converter                                      *)
(***************************************************************************)
RECURSIVE EnumColumns(_)
\* the dict_id of every column of Dictionary type, at any depth and as the
\* item of a list, in schema order
EnumColumns(fields) ==
    IF fields = <<>> THEN <<>>
    ELSE LET f == Head(fields)
             own == CASE f.type = "Dictionary" -> <<f.dict_id>>
                      [] f.type = "Struct" -> EnumColumns(f.fields)
                      [] f.type = "List" -> EnumColumns(<<f.inner>>)
                      [] OTHER -> <<>>
         IN  own \o EnumColumns(Tail(fields))

\* C22: every enum column of a schema the converter produced carries a
\* positive dictionary id of its own whose values the container holds, and
\* building the builders for that schema with that container does not fail
\* with DictNotFound.
C22_EnumColumnsAreRegistered ==
    /\ schema # None =>
          LET ids == EnumColumns(schema[1]) IN
          /\ \A i \in 1..Len(ids) : ids[i] > 0 /\ get_dict_values(dictionaries, ids[i]) # None
          /\ \A i, j \in 1..Len(ids) : i # j => ids[i] # ids[j]
    /\ made # "DictNotFound"

\* this step is a call of add_dictionary on the container
AddDictionaryStep == nplan' = nplan + 1 /\ last'.op = "add_dictionary"

\* C23: id 0 is never assigned and never resolves; add_dictionary returns an
\* id of at least 1 that the container did not hold, the new id resolves to
\* the values passed in their order and every id held before keeps its
\* values; the dictionary of a schema's enum holds the names in declaration
\* order.
C23_DictionaryIdsAreFreshAndStable ==
    /\ [](/\ 0 \notin DOMAIN dictionaries
          /\ get_dict_values(dictionaries, 0) = None
          /\ (last.op = "get_arrow_schema" /\ last.msg = NestedEnumDesc)
             => get_dict_values(dictionaries, 1) = Some(StatusValues))
    /\ [][AddDictionaryStep
          => /\ last'.id >= 1
             /\ last'.id \notin DOMAIN dictionaries
             /\ DOMAIN dictionaries' = DOMAIN dictionaries \cup {last'.id}
             /\ dictionaries'[last'.id] \in DictValues
             /\ \A id \in DOMAIN dictionaries :
                   get_dict_values(dictionaries', id) = get_dict_values(dictionaries, id)]_vars

\* two dictionaries were added to the container of a schema with two enums:
\* they got the ids 3 and 4, and 1 and 2 still resolve to the schema's enums
C23_Witness ==
    /\ last.op = "add_dictionary"
    /\ last.id = 4
    /\ DOMAIN dictionaries = 1..4
    /\ dictionaries[1] = StatusValues
    /\ dictionaries[2] = ModeValues
    /\ dictionaries[3] = ModeValues
    /\ dictionaries[4] = StatusValues

(***************************************************************************)
(* Properties of the cells append_message writes                           *)
(***************************************************************************)
\* the field of msg holds a value: it is set, or it does not track presence
HasValue(msg, name) == msg[name].has \/ ~msg[name].presence

\* C24: appending a message whose enum field holds a number without a name
\* fails; appending one whose enum field holds a declared number (0
\* included) adds the declared name to the enum's column.
C24_EnumValueAppendsItsName ==
    [][\A msg \in Msgs :
          (/\ AppendMessage(msg)
           /\ msg.status.v.k = "enum"
           /\ HasValue(msg, "status"))
          => IF get_value(msg.status.v.n) = None
             THEN ~last'.ok
             ELSE last'.ok => builder'.kids[2].cells =
                                 Append(builder.kids[2].cells, get_value(msg.status.v.n))]_vars

\* the cell a builder got last is null
CellIsNull(b) ==
    IF IsStructBuilder(b) THEN ~b.valid[Len(b.valid)] ELSE b.cells[Len(b.cells)] = None

\* the builders b2 of `fields` hold one more cell each than b, and the cell of
\* every non-repeated field is null exactly when m has no value for it
CellsFollowPresence(fields, b, b2, m) ==
    \A i \in 1..Len(fields) :
        fields[i].type # "List"
        => /\ BLen(b2.kids[i]) = BLen(b.kids[i]) + 1
           /\ CellIsNull(b2.kids[i]) <=> ~HasValue(m, fields[i].name)

\* C25: after a successful append the cell of every non-repeated field, of
\* the message and of a nested message it holds, is null exactly when the
\* field tracks presence and is not set; a field without presence gets a
\* non-null cell also for its default value.
C25_NullIffPresenceUnset ==
    [][\A msg \in Msgs :
          (AppendMessage(msg) /\ last'.ok)
          => /\ CellsFollowPresence(SchemaFields, builder, builder', msg)
             /\ (HasValue(msg, "inner") /\ msg.inner.v.k = "msg")
                => CellsFollowPresence(InnerFields, builder.kids[3], builder'.kids[3],
                                       msg.inner.v.m)]_vars

\* the list cell a ListBuilder got last, and the number of elements in it
LastCell(b) == b.cells[Len(b.cells)]
LastCellLen(b) ==
    LastCell(b).end - (IF Len(b.cells) = 1 THEN 0 ELSE b.cells[Len(b.cells) - 1].end)

\* the list cell b got last is a non-null list holding as many elements as lst
IsListOf(b, lst) == LastCell(b).valid /\ LastCellLen(b) = Len(lst)

\* C26: after a successful append the cell of a repeated field is a non-null
\* list with the elements of the field, so a non-null list of length zero
\* for an empty field, while the list of a nested message that is absent
\* is null.
C26_EmptyListIsNotNull ==
    [][\A msg \in Msgs :
          (AppendMessage(msg) /\ last'.ok)
          => /\ \A i \in {4, 5} :
                   LET name == SchemaFields[i].name IN
                   msg[name].v.k = "list"
                   => /\ Len(builder'.kids[i].cells) = Len(builder.kids[i].cells) + 1
                      /\ IsListOf(builder'.kids[i], msg[name].v.es)
             /\ Len(builder'.kids[3].kids[3].cells) = Len(builder.kids[3].kids[3].cells) + 1
             /\ IF HasValue(msg, "inner") /\ msg.inner.v.k = "msg"
                THEN IsListOf(builder'.kids[3].kids[3], msg.inner.v.m.ys.v.es)
                ELSE ~LastCell(builder'.kids[3].kids[3]).valid]_vars

RECURSIVE AllPaths(_)
\* the paths (sequences of field names) of all fields of a schema, those of
\* the children of its Structs included
AllPaths(fields) ==
    UNION { {<<fields[i].name>>}
            \cup (IF fields[i].type = "Struct"
                  THEN {<<fields[i].name>> \o q : q \in AllPaths(fields[i].fields)}
                  ELSE {}) : i \in 1..Len(fields) }

RECURSIVE Dotted(_)
\* a path written with dots
Dotted(path) ==
    IF Len(path) = 1 THEN path[1]
    ELSE Dotted(SubSeq(path, 1, Len(path) - 1)) \o "." \o path[Len(path)]

IsPrefix(p, q) == Len(p) <= Len(q) /\ SubSeq(q, 1, Len(p)) = p

RECURSIVE FieldAt(_, _)
\* the field a path leads to
FieldAt(fields, path) ==
    LET f == CHOOSE g \in {fields[i] : i \in 1..Len(fields)} : g.name = path[1]
    IN  IF Len(path) = 1 THEN f ELSE FieldAt(f.fields, Tail(path))

\* the names of the fields in `fields`, or of the children of the Struct at
\* `path`, in order
ChildNames(fields, path) ==
    LET kids == IF path = <<>> THEN fields ELSE FieldAt(fields, path).fields
    IN  [i \in 1..Len(kids) |-> kids[i].name]

\* the schema of the descriptor asked for last, before projection
Unprojected == get_arrow_schema_with_dictionaries(last.msg, {}).schema

\* the paths the projection names, and those it keeps: a named field with all
\* that is below it, and the Structs above a named field
NamedPaths == {p \in AllPaths(Unprojected) : Dotted(p) \in last.projection}
KeptPaths ==
    {q \in AllPaths(Unprojected) : \E p \in NamedPaths : IsPrefix(p, q) \/ IsPrefix(q, p)}

RECURSIVE SealedRows(_)
\* rows in the batches of the windows of q
SealedRows(q) ==
    IF q = <<>> THEN 0 ELSE SumSeq(BatchRows(Head(q).batches)) + SealedRows(Tail(q))

\* C28: as long as every ingest call has succeeded, the rows of the sealed
\* windows, of the batches of the current window and of the converter's
\* buffer add up to the number of messages ingested.
C28_RowsAddUpToMessages ==
    nfail = 0 => SealedRows(sealed) + RowsHeld(current, builder) = nmsg

\* six messages, all ingested: rows in two sealed windows, in a batch of the
\* current window and in the buffer
C28_Witness ==
    /\ nfail = 0
    /\ nmsg = 6
    /\ Len(sealed) = 2
    /\ SealedRows(sealed) >= 3
    /\ Len(current.batches) = 1
    /\ BLen(builder) = 1

\* C29: after a successful ingest fewer than batch_size rows are buffered;
\* every batch of the current window holds batch_size rows; a sealed window
\* holds at least one batch, all of batch_size rows but the last, which holds
\* fewer, and none when the rotation found the buffer empty.
C29_BatchSizes ==
    /\ [](/\ (last.op = "ingest" /\ last.ok) => BLen(builder) < batch_size
          /\ \A i \in 1..Len(current.batches) : current.batches[i].num_rows = batch_size
          /\ \A k \in 1..Len(sealed) :
                LET bs == sealed[k].batches IN
                /\ Len(bs) >= 1
                /\ \A i \in 1..(Len(bs) - 1) : bs[i].num_rows = batch_size
                /\ bs[Len(bs)].num_rows \in 0..(batch_size - 1))
    /\ [][(IngestStep /\ Len(sealed') = Len(sealed) + 1 /\ BLen(builder) = 0)
          => LET bs == sealed'[Len(sealed')].batches IN bs[Len(bs)].num_rows = 0]_vars

\* records_per_batch = 2: the window took two messages, which flushed a
\* batch, and was sealed right after: its final batch is empty
C29_Witness ==
    /\ batch_size = 2
    /\ last.op = "ingest" /\ last.ok /\ last.rotated
    /\ BatchRows(sealed[Len(sealed)].batches) = <<2, 0>>
    /\ BLen(builder) = 1

\* C30: an ingest call seals at most one window, however late the message
\* is, and the window that replaces the current one begins at the message's
\* timestamp, which is after the end of the window it replaces.
C30_OneSealPerIngestAtMessageTime ==
    [][IngestStep
       => /\ Len(sealed') <= Len(sealed) + 1
          /\ last'.rotated
             => /\ current'.begin_at = last'.now
                /\ current'.begin_at > current.end_at
                /\ last'.ok => /\ Len(sealed') = Len(sealed) + 1
                               /\ SameBounds(sealed'[Len(sealed')], current)]_vars

\* a message more than two periods late sealed one window only, and the
\* next window was sealed in turn: between the two no window covers the
\* time from 60 to 181
C30_Witness ==
    /\ Len(sealed) = 2
    /\ sealed[1].end_at = DefaultDuration
    /\ sealed[2].begin_at = 3 * DefaultDuration + 1
    /\ current.begin_at > sealed[2].end_at
    /\ last.op = "ingest" /\ last.ok /\ last.rotated

\* C31: an ingest stamped before the current window begins, or before the
\* previous ingest, does not rotate: the window keeps its bounds, nothing is
\* sealed, the call fails only when the message does not convert, and a
\* successful call adds the message's row to the current window.
C31_EarlyTimestampStaysInWindow ==
    [][\A msg \in RotMsgs : \A now \in Nows(current) :
          (/\ Ingest(msg, now)
           /\ now < current.begin_at \/ (last.op = "ingest" /\ now < last.now))
          => /\ ~last'.rotated
             /\ SameBounds(current', current)
             /\ sealed' = sealed
             /\ last'.ok <=> append_message(builder, msg).ok
             /\ last'.ok => RowsHeld(current', builder') = RowsHeld(current, builder) + 1]_vars

\* the window that began at 61 took a message stamped 60, after the message
\* stamped 61 that opened it
C31_Witness ==
    /\ last.op = "ingest" /\ last.ok /\ ~last.rotated
    /\ last.now < current.begin_at
    /\ current.begin_at = DefaultDuration + 1
    /\ inwin = 2
    /\ RowsHeld(current, builder) = 2

(***************************************************************************)
(* Propagation of a stage's termination                                    *)
(***************************************************************************)
Ended(task) == task = "closed" \/ task = "failed"

\* this step is the rotation task trying to send a sealed window
RotatorSendStep == rotator_task = "running" /\ nmsg' = nmsg + 1 /\ last'.rotated

MaxWrites == 3       \* write_batch / ingest calls per behaviour
MaxNumBatches == 2   \* largest num_batches tried

\* where an I/O step of a call fails: nowhere, in writer.write, in
\* ParquetBuffer::new or in finalize_and_write_file
Faults == {"none", "write", "new", "finalize"}

\* the batches ingest_message hands to the writer
WriterBatches == {[num_rows |-> 1, columns |-> <<>>], [num_rows |-> 2, columns |-> <<>>]}

WriterMsgs == {DefaultMsg, BadId}

\* advance_buffer: swap in a new buffer named after the current time, empty
\* the list of batches, then finalize the old buffer and write its file
advance_buffer(w, bs, now, fault) ==
    IF fault = "new"
    THEN [ok |-> FALSE, writer |-> w, batches |-> bs, file |-> None]
    ELSE [ok |-> fault # "finalize",
          writer |-> ParquetBufferNew(w.filename.dir, now),
          batches |-> <<>>,
          file |-> IF fault = "finalize" THEN None ELSE Some(w)]

\* write_batch that flushes once more than num_batches batches are held
write_batch_late(w, bs, m, batch, now, fault) ==
    IF fault = "write"
    THEN [ok |-> FALSE, writer |-> w, batches |-> bs, file |-> None]
    ELSE LET w1 == [w EXCEPT !.batches = Append(@, batch)]
             bs1 == Append(bs, batch)
         IN  IF Len(bs1) > m
             THEN advance_buffer(w1, bs1, now, fault)
             ELSE [ok |-> TRUE, writer |-> w1, batches |-> bs1, file |-> None]

\* write_batch: encode the batch into the open buffer, keep it, and advance
\* the buffer once num_batches batches are held
write_batch(w, bs, m, batch, now, fault) ==
    IF fault = "write"
    THEN [ok |-> FALSE, writer |-> w, batches |-> bs, file |-> None]
    ELSE LET w1 == [w EXCEPT !.batches = Append(@, batch)]
             bs1 == Append(bs, batch)
         IN  IF Len(bs1) >= m
             THEN advance_buffer(w1, bs1, now, fault)
             ELSE [ok |-> TRUE, writer |-> w1, batches |-> bs1, file |-> None]

\* MultiBatchWriter::new("data/parquet", schema, num_batches) at time Start
InitWriter ==
    /\ builder = NewConverter
    /\ batch_size \in 1..MaxBatch
    /\ period = DefaultDuration
    /\ current = TemporalBufferNew(Start)
    /\ sealed = <<>>
    /\ nmsg = 0
    /\ inwin = 0
    /\ nfail = 0
    /\ last = NoCall
    /\ clock = Start
    /\ rx = <<>>
    /\ rotator_task = "running"
    /\ LineNew
    /\ PlanNew
    /\ num_batches \in 1..MaxNumBatches
    /\ in_memory = <<>>
    /\ writer = ParquetBufferNew("data/parquet", Start)
    /\ written = <<>>
    /\ accepted = <<>>
    /\ remaining = <<>>
    /\ input = <<>>
    /\ field_tag = 1
    /\ yielded = <<>>
    /\ ended = FALSE
    /\ serialization = "Parquet"
    /\ output = <<>>
    /\ result = "running"

\* what a write_batch call that returned r leaves behind
WriterLeaves(r, batch) ==
    /\ writer' = r.writer
    /\ in_memory' = r.batches
    /\ files' = IF r.file # None
                THEN (r.file[1].filename :> r.file[1].batches) @@ files
                ELSE files
    /\ written' = IF r.file # None THEN Append(written, r.file[1]) ELSE written
    /\ accepted' = IF r.ok THEN Append(accepted, batch) ELSE accepted

\* writer.write_batch(batch)? at time now
WriteBatch(batch, now, fault) ==
    \E r \in {write_batch(writer, in_memory, num_batches, batch, now, fault)} :
    /\ nmsg < MaxWrites
    /\ r.ok \/ nfail < MaxFails
    /\ WriterLeaves(r, batch)
    /\ nmsg' = nmsg + 1
    /\ nfail' = nfail + (IF r.ok THEN 0 ELSE 1)
    /\ clock' = now
    /\ last' = [op |-> "write_batch", ok |-> r.ok, flushed |-> r.file # None]
    /\ UNCHANGED <<builder, batch_size, current, period, sealed, inwin, rx,
                   rotator_task>>
    /\ UNCHANGED <<head, rx_buf, converter_buf, converter_task, rx_bytes, sink_buf,
                   sink_task, encoded, writes>>
    /\ UNCHANGED plan_vars
    /\ UNCHANGED <<num_batches, remaining, input, field_tag, yielded, ended,
                   serialization, output, result>>

\* BufferedParquetIngestor::ingest(packet) at time now
BufferedIngest(packet, now, fault) ==
    \E i \in {ingest_message(builder, batch_size, packet)} :
    \E r \in {IF i.batch # None
              THEN write_batch(writer, in_memory, num_batches, i.batch[1], now, fault)
              ELSE [ok |-> i.ok, writer |-> writer, batches |-> in_memory,
                    file |-> None]} :
    /\ nmsg < MaxWrites
    /\ r.ok \/ nfail < MaxFails
    /\ builder' = i.b
    /\ IF i.batch # None
       THEN WriterLeaves(r, i.batch[1])
       ELSE UNCHANGED <<writer, in_memory, files, written, accepted>>
    /\ nmsg' = nmsg + 1
    /\ nfail' = nfail + (IF r.ok THEN 0 ELSE 1)
    /\ clock' = now
    /\ last' = [op |-> "ingest", ok |-> r.ok, flushed |-> r.file # None]
    /\ UNCHANGED <<batch_size, current, period, sealed, inwin, rx, rotator_task>>
    /\ UNCHANGED <<head, rx_buf, converter_buf, converter_task, rx_bytes, sink_buf,
                   sink_task, encoded, writes>>
    /\ UNCHANGED plan_vars
    /\ UNCHANGED <<num_batches, remaining, input, field_tag, yielded, ended,
                   serialization, output, result>>

\* the clock read by SystemTime::now(): the same millisecond as the call
\* before, or the next
WriterNows == {clock, clock + 1}

WriteBatchCall ==
    \E batch \in WriterBatches : \E now \in WriterNows : \E fault \in Faults :
        WriteBatch(batch, now, fault)

BufferedIngestCall ==
    \E packet \in WriterMsgs : \E now \in WriterNows : \E fault \in Faults :
        BufferedIngest(packet, now, fault)

NextWriter == WriteBatchCall \/ BufferedIngestCall

SpecWriter == InitWriter /\ [][NextWriter]_vars

\* the batches of calls from..to of the successful calls, as the writer got them
Slice(q, from, to) == [i \in 1..(to - from + 1) |-> q[from + i - 1]]

\* C33: while every call has returned Ok, after c successful write_batch
\* calls with num_batches = m exactly c div m buffers have been finalized
\* and written, the k-th of them holding batches (k-1)m+1..km, the last
\* c mod m batches are held in memory and in the open buffer only, and a
\* call writes a file only when it brings the held batches to m.
C33_FlushEveryNumBatches ==
    /\ [](nfail = 0 =>
            LET c == Len(accepted)
                m == num_batches
            IN  /\ Len(written) = c \div m
                /\ \A k \in 1..Len(written) :
                       written[k].batches = Slice(accepted, (k - 1) * m + 1, k * m)
                /\ in_memory = Slice(accepted, c - (c % m) + 1, c)
                /\ writer.batches = in_memory
                /\ \A k \in 1..Len(written) :
                       /\ written[k].filename \in DOMAIN files
                       /\ Len(files[written[k].filename]) = m)
    /\ [][nfail' = 0 =>
            /\ (written' # written <=>
                    /\ accepted' # accepted
                    /\ Len(in_memory) + 1 = num_batches)
            /\ (accepted' = accepted => UNCHANGED <<written, files, in_memory>>)]_vars

\* three batches written with num_batches = 2: one file of two batches, and
\* the third batch held in memory
C33_Witness ==
    /\ nfail = 0
    /\ num_batches = 2
    /\ Len(accepted) = 3
    /\ Len(written) = 1
    /\ Len(written[1].batches) = 2
    /\ Len(in_memory) = 1

(***************************************************************************)
(* RepeatedDynamicMessages: an iterator over the length-delimited records  *)
(* of a buffer.  A buffer is a sequence of bytes (0..255).                 *)
(***************************************************************************)
MaxRecords == 2   \* records in the buffers offered

Min(a, b) == IF a <= b THEN a ELSE b

\* Buf::advance(n): the buffer without its first n bytes
Advance(buf, n) == SubSeq(buf, n + 1, Len(buf))

\* Buf::take(n): a view of at most n bytes; nothing is consumed by making it
Take(buf, n) == SubSeq(buf, 1, Min(n, Len(buf)))

RECURSIVE VarintFrom(_, _, _)
\* the bytes of a varint, least significant group first: seven bits a byte,
\* the high bit says another byte follows
VarintFrom(buf, mult, acc) ==
    IF buf = <<>>
    THEN [ok |-> FALSE, value |-> acc, rest |-> <<>>]
    ELSE IF Head(buf) < 128
    THEN [ok |-> TRUE, value |-> acc + Head(buf) * mult, rest |-> Tail(buf)]
    ELSE VarintFrom(Tail(buf), mult * 128, acc + (Head(buf) % 128) * mult)

\* prost::encoding::decode_varint (the buffers offered hold varints of at
\* most two bytes)
decode_varint(buf) == VarintFrom(buf, 1, 0)

\* WireType numbers
Varint == 0
SixtyFourBit == 1
LengthDelimited == 2
ThirtyTwoBit == 5
WireTypes == {0, 1, 2, 3, 4, 5}

\* prost::encoding::decode_key: key = tag * 8 + wire type, tag >= 1
decode_key(buf) ==
    LET v == decode_varint(buf) IN
    IF ~v.ok
    THEN [ok |-> FALSE, tag |-> 0, wire_type |-> 0, rest |-> v.rest]
    ELSE IF (v.value % 8) \notin WireTypes \/ v.value \div 8 < 1
    THEN [ok |-> FALSE, tag |-> v.value \div 8, wire_type |-> v.value % 8,
          rest |-> v.rest]
    ELSE [ok |-> TRUE, tag |-> v.value \div 8, wire_type |-> v.value % 8,
          rest |-> v.rest]

\* the fields the descriptors declare, by number: Packet.id = 1 (int32),
\* Packet.inner = 3 (message), Inner.x = 1 (int32), Inner.tag = 2 (string)
KnownFields ==
    [Packet |-> (1 :> [name |-> "id", wire |-> Varint])
                @@ (3 :> [name |-> "inner", wire |-> LengthDelimited]),
     Inner |-> (1 :> [name |-> "x", wire |-> Varint])
               @@ (2 :> [name |-> "tag", wire |-> LengthDelimited])]

RECURSIVE merge(_, _, _)
RECURSIVE merge_field(_, _, _, _, _)

\* one field of a message: a declared field is set (a scalar equal to its
\* default reads as not set), a field the descriptor does not declare is
\* kept aside; either way its bytes are consumed
merge_field(desc, msg, tag, wire_type, buf) ==
    LET known == tag \in DOMAIN KnownFields[desc]
        fail(rest) == [ok |-> FALSE, msg |-> msg, rest |-> rest]
    IN
    IF known /\ KnownFields[desc][tag].wire # wire_type THEN fail(buf)
    ELSE IF wire_type = Varint
    THEN LET v == decode_varint(buf) IN
         IF ~v.ok THEN fail(v.rest)
         ELSE [ok |-> TRUE, rest |-> v.rest,
               msg |-> IF known
                       THEN [msg EXCEPT ![KnownFields[desc][tag].name] =
                                 IF v.value # 0 THEN Present(I32) ELSE Unset(I32)]
                       ELSE msg]
    ELSE IF wire_type = LengthDelimited
    THEN LET l == decode_varint(buf) IN
         IF ~l.ok THEN fail(l.rest)
         ELSE IF l.value > Len(l.rest) THEN fail(l.rest)
         ELSE IF known /\ desc = "Packet"
         THEN LET sub == merge("Inner", Take(l.rest, l.value), InnerDefault) IN
              IF ~sub.ok
              THEN fail(Advance(l.rest, l.value - Len(sub.rest)))
              ELSE [ok |-> TRUE, rest |-> Advance(l.rest, l.value),
                    msg |-> [msg EXCEPT !.inner = Set(Message(sub.msg))]]
         ELSE [ok |-> TRUE, rest |-> Advance(l.rest, l.value),
               msg |-> IF known /\ l.value > 0
                       THEN [msg EXCEPT !.tag = Present(Str)]
                       ELSE msg]
    ELSE IF wire_type = SixtyFourBit
    THEN IF Len(buf) < 8 THEN fail(buf)
         ELSE [ok |-> TRUE, rest |-> Advance(buf, 8), msg |-> msg]
    ELSE IF wire_type = ThirtyTwoBit
    THEN IF Len(buf) < 4 THEN fail(buf)
         ELSE [ok |-> TRUE, rest |-> Advance(buf, 4), msg |-> msg]
    ELSE fail(buf)   \* group keys do not occur in the buffers offered

\* Message::merge: fields are read until the buffer has nothing left
merge(desc, buf, msg) ==
    IF buf = <<>>
    THEN [ok |-> TRUE, msg |-> msg, rest |-> <<>>]
    ELSE LET k == decode_key(buf) IN
         IF ~k.ok
         THEN [ok |-> FALSE, msg |-> msg, rest |-> k.rest]
         ELSE LET f == merge_field(desc, msg, k.tag, k.wire_type, k.rest) IN
              IF ~f.ok THEN f ELSE merge(desc, f.rest, f.msg)

\* DynamicMessage::decode(descriptor, bytes) of a Packet
DynamicMessageDecode(payload) == merge("Packet", payload, DefaultMsg)

\* an item of the iterator: Ok(message) or Err(error)
OkItem(msg) == [ok |-> TRUE, msg |-> Some(msg), err |-> ""]
ErrItem(e) == [ok |-> FALSE, msg |-> None, err |-> e]

\* decode_next: res is Some(item) for Ok(Some(msg)) and for Err(e), None for
\* Ok(None).  The payload is a Take over the buffer: the buffer moves only
\* as far as the payload is read, and a payload that is not decoded is not
\* read at all.
decode_next(buf, tag) ==
    LET k == decode_key(buf) IN
    IF ~k.ok THEN [res |-> Some(ErrItem("DecodeError")), rest |-> k.rest]
    ELSE IF k.wire_type # LengthDelimited
    THEN [res |-> Some(ErrItem("NotLengthDelimted")), rest |-> k.rest]
    ELSE LET size == decode_varint(k.rest) IN
         IF ~size.ok THEN [res |-> Some(ErrItem("DecodeError")), rest |-> size.rest]
         ELSE LET payload == Take(size.rest, size.value) IN
              IF k.tag = tag
              THEN LET d == DynamicMessageDecode(payload) IN
                   [res |-> Some(IF d.ok THEN OkItem(d.msg) ELSE ErrItem("DecodeError")),
                    rest |-> Advance(size.rest, Len(payload) - Len(d.rest))]
              ELSE [res |-> None, rest |-> size.rest]

RECURSIVE next(_, _)
\* Iterator::next: None once nothing remains; Ok(None) asks again
next(buf, tag) ==
    IF buf # <<>>
    THEN LET r == decode_next(buf, tag) IN
         IF r.res # None THEN [item |-> r.res, rest |-> r.rest]
         ELSE next(r.rest, tag)
    ELSE [item |-> None, rest |-> buf]

\* a length-delimited record on the wire: key, length, payload
Record(tag, payload) == <<tag * 8 + LengthDelimited, Len(payload)>> \o payload

\* payloads offered: Packet::default(), a Packet with id = 1, and a Packet
\* whose inner message is set and empty
Payloads == {<<>>, <<8, 1>>, <<26, 0>>}
RecordTags == {1, 3}
Records1 == {Record(tag, payload) : tag \in RecordTags, payload \in Payloads}

RECURSIVE BuffersOf(_)
\* the concatenations of exactly n records
BuffersOf(n) ==
    IF n = 0 THEN {<<>>}
    ELSE {r \o b : r \in Records1, b \in BuffersOf(n - 1)}

Buffers == UNION {BuffersOf(n) : n \in 0..MaxRecords}

\* RepeatedDynamicMessages::iterator(bytes, descriptor, field_tag)
InitIter ==
    /\ builder = NewConverter
    /\ batch_size = MaxBatch
    /\ period = DefaultDuration
    /\ current = TemporalBufferNew(Start)
    /\ sealed = <<>>
    /\ nmsg = 0
    /\ inwin = 0
    /\ nfail = 0
    /\ last = NoCall
    /\ clock = Start
    /\ rx = <<>>
    /\ rotator_task = "running"
    /\ LineNew
    /\ PlanNew
    /\ num_batches = 1
    /\ in_memory = <<>>
    /\ writer = ParquetBufferNew("data/parquet", Start)
    /\ written = <<>>
    /\ accepted = <<>>
    /\ input \in Buffers
    /\ remaining = input
    /\ field_tag \in RecordTags
    /\ yielded = <<>>
    /\ ended = FALSE
    /\ serialization = "Parquet"
    /\ output = <<>>
    /\ result = "running"

\* messages.next()
IterNext ==
    \E r \in {next(remaining, field_tag)} :
    /\ ~ended
    /\ remaining' = r.rest
    /\ yielded' = IF r.item # None THEN Append(yielded, r.item[1]) ELSE yielded
    /\ ended' = (r.item = None)
    /\ UNCHANGED <<builder, batch_size, current, period, sealed, nmsg, inwin, nfail,
                   last, clock, rx, rotator_task>>
    /\ UNCHANGED line_vars
    /\ UNCHANGED plan_vars
    /\ UNCHANGED <<num_batches, in_memory, writer, written, accepted, input,
                   field_tag, serialization, output, result>>

NextIter == IterNext

SpecIter == InitIter /\ [][NextIter]_vars

RECURSIVE RecordsOf(_)
\* the records a buffer is the concatenation of: <<tag, payload>> each
RecordsOf(buf) ==
    IF buf = <<>> THEN <<>>
    ELSE LET k == decode_key(buf)
             size == decode_varint(k.rest)
         IN  <<[tag |-> k.tag, payload |-> Take(size.rest, size.value)]>>
             \o RecordsOf(Advance(size.rest, size.value))

RECURSIVE Concatenation(_)
\* the buffer that is the concatenation of the records
Concatenation(recs) ==
    IF recs = <<>> THEN <<>>
    ELSE Record(Head(recs).tag, Head(recs).payload) \o Concatenation(Tail(recs))

RECURSIVE MessagesOf(_, _)
\* the messages of the records with the given tag, in the order of the records
MessagesOf(recs, tag) ==
    IF recs = <<>> THEN <<>>
    ELSE (IF Head(recs).tag = tag
          THEN <<OkItem(DynamicMessageDecode(Head(recs).payload).msg)>>
          ELSE <<>>)
         \o MessagesOf(Tail(recs), tag)

\* C34: over a concatenation of length-delimited records the items yielded
\* so far are the messages of the first records whose tag is field_tag, in
\* input order; what remains of the buffer begins at a record boundary
\* (every record read or skipped is consumed whole); and once next() has
\* returned None the buffer is exhausted and every such record was yielded.
C34_YieldsMatchingRecordsInOrder ==
    LET all == RecordsOf(input) IN
    \E n \in 0..Len(all) :
        /\ remaining = Concatenation(SubSeq(all, n + 1, Len(all)))
        /\ yielded = MessagesOf(SubSeq(all, 1, n), field_tag)
        /\ ended => n = Len(all)

(***************************************************************************)
(* RepeatedProtoIngestor: the records of a buffer, in chunks of            *)
(* records_per_arrow_batch messages, into a parquet file or lance dataset  *)
(***************************************************************************)
MaxPackets == 3   \* records in the buffers given to the ingestor

Serializations == {"Parquet", "Lance"}

\* whether an I/O step of the call fails
IoFaults == {"none", "io"}

IngestBuffers == UNION {BuffersOf(n) : n \in 0..MaxPackets}

RECURSIVE Chunk(_, _, _)
\* messages.chunks(n), one chunk collected into a Result<Vec<_>>: up to n
\* items are pulled, the first Err ends the collection
Chunk(buf, n, acc) ==
    IF n = 0 THEN [items |-> acc, rest |-> buf, err |-> FALSE]
    ELSE LET r == next(buf, 1) IN
         IF r.item = None THEN [items |-> acc, rest |-> r.rest, err |-> FALSE]
         ELSE IF ~r.item[1].ok THEN [items |-> acc, rest |-> r.rest, err |-> TRUE]
         ELSE Chunk(r.rest, n - 1, Append(acc, r.item[1]))

RECURSIVE IngestPackets(_, _, _, _, _)
\* BatchIngestor::ingest(packets): every packet goes through ingest_message;
\* a batch that comes back is written (parquet) or pushed (lance)
IngestPackets(b, size, packets, batches_out, write_ok) ==
    IF packets = <<>> THEN [ok |-> TRUE, b |-> b, out |-> batches_out]
    ELSE LET i == ingest_message(b, size, Head(packets).msg[1]) IN
         IF ~i.ok THEN [ok |-> FALSE, b |-> i.b, out |-> batches_out]
         ELSE IF i.batch = None
         THEN IngestPackets(i.b, size, Tail(packets), batches_out, write_ok)
         ELSE IF ~write_ok THEN [ok |-> FALSE, b |-> i.b, out |-> batches_out]
         ELSE IngestPackets(i.b, size, Tail(packets),
                            Append(batches_out, i.batch[1]), write_ok)

\* LanceFsIngestor::finish: the batch of ingestor.finish() is not written;
\* the dataset is made of the batches pushed so far
LanceFinish(b, pushed) == [b |-> finish(b).b, out |-> pushed]

\* ParquetFileIngestor::finish: the batch of ingestor.finish() is written
\* and the file closed
ParquetFinish(b, file) == [b |-> finish(b).b, out |-> Append(file, finish(b).batch)]

\* RepeatedProtoIngestor::new(bytes, arrow_props, serialization)
InitIngest ==
    /\ builder = NewConverter
    /\ batch_size \in 1..MaxBatch
    /\ period = DefaultDuration
    /\ current = TemporalBufferNew(Start)
    /\ sealed = <<>>
    /\ nmsg = 0
    /\ inwin = 0
    /\ nfail = 0
    /\ last = NoCall
    /\ clock = Start
    /\ rx = <<>>
    /\ rotator_task = "running"
    /\ LineNew
    /\ PlanNew
    /\ num_batches = 1
    /\ in_memory = <<>>
    /\ writer = ParquetBufferNew("data/parquet", Start)
    /\ written = <<>>
    /\ accepted = <<>>
    /\ input \in IngestBuffers
    /\ remaining = input
    /\ field_tag = 1
    /\ yielded = <<>>
    /\ ended = FALSE
    /\ serialization \in Serializations
    /\ output = <<>>
    /\ result = "running"

\* one round of the for loop of ingest: the next chunk is collected and
\* handed to packet_ingestor.ingest; no chunk left ends the loop
IngestChunk(fault) ==
    \E c \in {Chunk(remaining, batch_size, <<>>)} :
    \E r \in {IngestPackets(builder, batch_size, c.items,
                            IF serialization = "Parquet" THEN output ELSE in_memory,
                            serialization = "Lance" \/ fault = "none")} :
    /\ result = "running"
    /\ ~ended
    /\ remaining' = c.rest
    /\ yielded' = yielded \o c.items
    /\ IF c.err
       THEN /\ result' = "err"
            /\ UNCHANGED <<builder, output, in_memory, ended>>
       ELSE IF c.items = <<>>
       THEN /\ ended' = TRUE
            /\ UNCHANGED <<builder, output, in_memory, result>>
       ELSE /\ builder' = r.b
            /\ output' = IF serialization = "Parquet" THEN r.out ELSE output
            /\ in_memory' = IF serialization = "Lance" THEN r.out ELSE in_memory
            /\ result' = IF r.ok THEN "running" ELSE "err"
            /\ UNCHANGED ended
    /\ UNCHANGED <<batch_size, current, period, sealed, nmsg, inwin, nfail,
                   last, clock, rx, rotator_task>>
    /\ UNCHANGED line_vars
    /\ UNCHANGED plan_vars
    /\ UNCHANGED <<num_batches, writer, written, accepted, input, field_tag,
                   serialization>>

\* self.packet_ingestor.finish()? and Ok(()).  Dataset::write over no batch
\* at all either makes an empty dataset or panics in the unwrap.
FinishIngest(fault) ==
    \E f \in {IF serialization = "Parquet"
              THEN ParquetFinish(builder, output)
              ELSE LanceFinish(builder, in_memory)} :
    /\ result = "running"
    /\ ended
    /\ builder' = f.b
    /\ IF fault = "io"
       THEN /\ result' = IF serialization = "Parquet" THEN "err" ELSE "panic"
            /\ UNCHANGED output
       ELSE /\ output' = f.out
            /\ result' \in IF serialization = "Lance" /\ f.out = <<>>
                           THEN {"ok", "panic"}
                           ELSE {"ok"}
    /\ UNCHANGED <<batch_size, current, period, sealed, nmsg, inwin, nfail,
                   last, clock, rx, rotator_task>>
    /\ UNCHANGED line_vars
    /\ UNCHANGED plan_vars
    /\ UNCHANGED <<num_batches, in_memory, writer, written, accepted, remaining,
                   input, field_tag, yielded, ended, serialization>>

IngestChunkCall == \E fault \in IoFaults : IngestChunk(fault)

FinishIngestCall == \E fault \in IoFaults : FinishIngest(fault)

NextIngest == IngestChunkCall \/ FinishIngestCall

SpecIngest == InitIngest /\ [][NextIngest]_vars

\* C35: when ingest has returned Ok, the rows of the batches the serializer
\* wrote are as many as the messages decoded from the buffer, the last,
\* partial batch included.
C35_RowsWrittenEqualMessagesDecoded ==
    result = "ok" => SumSeq(BatchRows(output)) = Len(yielded)

====
